---- MODULE Spec2Model ----
(***************************************************************************)
(* SOGAS-RH backend: the Employee Directory (employeeRoutes.js) with its   *)
(* Affectation History Tracker, and the HR handlers that write the         *)
(* employees table (hrRoutes.js), over a transactional relational store.   *)
(*                                                                         *)
(* Spec      : requests handled one after the other; each action is one    *)
(*             whole handler, from beginTransaction to commit or rollback. *)
(* SpecHr    : the same, with the contract and sanction handlers.          *)
(* SpecConc  : two requests in flight for the same employee, one store     *)
(*             call per step, under InnoDB's default isolation.            *)
(***************************************************************************)
EXTENDS Integers, Sequences, FiniteSets, TLC

VARIABLES
    store,      \* the committed tables of the relational store
    today,      \* CURDATE(), in days
    last,       \* the last request handled and its response
    nchanges,   \* per employee: committed requests that changed its live placement
    reqs,       \* SpecConc: the requests in flight, one per worker
    locks,      \* SpecConc: the row locks held, per worker
    ndone       \* SpecConc: per worker, the requests it has finished

vars == <<store, today, last, nchanges, reqs, locks, ndone>>

---------------------------------------------------------------------------
(* Bounds of the model *)

MaxAff == 3     \* rows of the employee_affectations table
MaxDay == 2     \* days the calendar runs through
MaxHr == 1      \* rows of the sanctions table
MaxReq == 2     \* SpecConc: requests a worker handles
MaxContracts == 2   \* rows of the contracts table

---------------------------------------------------------------------------
(* SQL NULL and JavaScript undefined: a nullable value is <<>> or <<v>> *)

Null == <<>>
Some(v) == <<v>>
IsNull(x) == x = <<>>
Val(x) == x[1]

\* a || b that always yields b
Fallback(x, y) == y

\* JavaScript a || b on an optional request field: the field when supplied
\* (Joi admits neither 0 nor "" for these fields), else the fallback.
OrElse(x, y) == IF IsNull(x) THEN y ELSE Val(x)

\* fieldsToUpdate[field] !== undefined ? fieldsToUpdate[field] : the stored value
SetIfSupplied(x, cur) == IF IsNull(x) THEN cur ELSE Val(x)

Put(f, k, v) == [x \in DOMAIN f \cup {k} |-> IF x = k THEN v ELSE f[x]]

---------------------------------------------------------------------------
(* Value domains of the requests *)

StructIds == {1, 2}                 \* rows present in sites, departments, services, teams
MissingId == 3                      \* an id with no structure row
Postes == {"Agent", "Chef"}
Matricules == {"M1", "M2"}          \* the matricules hires are sent with
ReqUser == 9                        \* req.user.id of the authenticated caller
EmpIds == 1..Cardinality(Matricules) \* the ids hires can get: matricules are unique
AbsentEmp == Cardinality(Matricules) + 1    \* an id no employee gets

JoiError == "error.details[0].message"
ServerError == "Erreur serveur"        \* the 500 message, whatever the handler
MotifObligatoire ==
    "Motif de changement obligatoire pour les modifications d'affectation/poste."

EmbaucheInitiale == "Embauche initiale"
\* CONCAT('Licenciement/Archivage par ', 'Procédure de départ')
MotifArchivage == "Licenciement/Archivage par Procédure de départ"
CommentaireFin(motif) == <<"Affectation terminée suite à: ", motif>>

---------------------------------------------------------------------------
(* The store *)

EmptyStore ==
    [ employees |-> <<>>,
      employee_personal |-> <<>>,
      employee_contact |-> <<>>,
      employee_affectations |-> <<>>,
      sites |-> StructIds, departments |-> StructIds,
      services |-> StructIds, teams |-> StructIds,
      contracts |-> <<>>,
      sanctions |-> <<>> ]

\* connection.commit(): the transaction's view becomes the committed tables.
Commit(committed, view) == view

\* a rollback that keeps what the transaction wrote
KeepView(committed, view) == view

\* connection.rollback(): the committed tables stay as they were.
Rollback(committed, view) == committed

\* result.insertId of an AUTO_INCREMENT table: the ids grow with the inserts.
\* (The ids a rolled-back insert consumed are not modelled as lost: no
\* statement of the program reads an id's value, only their order.)
Max(S) == CHOOSE x \in S : \A y \in S : y <= x
insertId(table) == Max(DOMAIN table \cup {0}) + 1

OpenAffectations(s, e) ==
    { a \in DOMAIN s.employee_affectations :
        /\ s.employee_affectations[a].employee_id = e
        /\ IsNull(s.employee_affectations[a].date_fin) }

AffectationsOf(s, e) ==
    { a \in DOMAIN s.employee_affectations :
        s.employee_affectations[a].employee_id = e }

\* res.status(code).json({message, ...}) after the transaction ended in store s
Resp(s, code, message) ==
    [store |-> s, response |-> [status |-> code, message |-> message]]

---------------------------------------------------------------------------
(* POST /api/employee *)

\* employeeCreationSchema: every field but user_id is required.
employeeCreationSchema(body) ==
    /\ ~IsNull(body.matricule)
    /\ body.site_id >= 1 /\ body.department_id >= 1
    /\ body.service_id >= 1 /\ body.team_id >= 1

MatriculeExists(v, matricule) ==
    \E e \in DOMAIN v.employees : v.employees[e].matricule = matricule

structureCheck(v, body) ==
    /\ body.site_id \in v.sites
    /\ body.department_id \in v.departments
    /\ body.service_id \in v.services
    /\ body.team_id \in v.teams

\* INSERT INTO employees: statut, position_id and date_fin_contrat take the
\* column defaults.
InsertEmployee(v, body) ==
    LET id == insertId(v.employees)
        row == [ matricule |-> Val(body.matricule),
                 site_id |-> body.site_id, department_id |-> body.department_id,
                 service_id |-> body.service_id, team_id |-> body.team_id,
                 position |-> body.position, fonction |-> body.fonction,
                 statut |-> "Actif", user_id |-> body.user_id,
                 position_id |-> Null, date_fin_contrat |-> Null ]
    IN [v EXCEPT !.employees = Put(@, id, row)]

InsertPersonal(v, employeeId, body) ==
    [v EXCEPT !.employee_personal = Put(@, employeeId, [genre |-> body.genre])]

InsertContact(v, employeeId, body) ==
    [v EXCEPT !.employee_contact =
        Put(@, employeeId, [telephone_principal |-> body.telephone_principal])]

\* INSERT INTO employee_affectations at hire: the *_ancien columns, date_fin
\* and commentaire are not listed and stay NULL.
InsertInitialAffectation(v, d, employeeId, body) ==
    LET id == insertId(v.employee_affectations)
        row == [ employee_id |-> employeeId, date_debut |-> d, date_fin |-> Null,
                 motif |-> EmbaucheInitiale, commentaire |-> Null,
                 created_by_user_id |-> ReqUser,
                 site_id_ancien |-> Null, department_id_ancien |-> Null,
                 service_id_ancien |-> Null, team_id_ancien |-> Null,
                 position_ancienne |-> Null, fonction_ancienne |-> Null,
                 site_id_nouveau |-> Some(body.site_id),
                 department_id_nouveau |-> Some(body.department_id),
                 service_id_nouveau |-> Some(body.service_id),
                 team_id_nouveau |-> Some(body.team_id),
                 position_nouvelle |-> Some(body.position),
                 fonction_nouvelle |-> Some(body.fonction) ]
    IN [v EXCEPT !.employee_affectations = Put(@, id, row)]

\* The handler; failAt = k makes the k-th store call throw (0: none does).
PostEmployee(s, d, body, failAt) ==
    LET employeeId == insertId(s.employees)
        v3 == InsertEmployee(s, body)
        v4 == InsertPersonal(v3, employeeId, body)
        v5 == InsertContact(v4, employeeId, body)
        v6 == InsertInitialAffectation(v5, d, employeeId, body)
    IN  IF ~employeeCreationSchema(body) THEN Resp(s, 400, JoiError)
        ELSE IF failAt = 1 THEN Resp(Rollback(s, s), 500, ServerError)
        ELSE IF MatriculeExists(s, Val(body.matricule))
            THEN Resp(Rollback(s, s), 409, "Ce matricule existe déjà. Unicité requise.")
        ELSE IF failAt = 2 THEN Resp(Rollback(s, s), 500, ServerError)
        ELSE IF ~structureCheck(s, body)
            THEN Resp(Rollback(s, s), 400, "Erreur: L'une des affectations (Site, Département, Service, Équipe) n'existe pas.")
        ELSE IF failAt = 3 THEN Resp(Rollback(s, s), 500, ServerError)
        ELSE IF failAt = 4 THEN Resp(Rollback(s, v3), 500, ServerError)
        ELSE IF failAt = 5 THEN Resp(Rollback(s, v4), 500, ServerError)
        ELSE IF failAt = 6 THEN Resp(Rollback(s, v5), 500, ServerError)
        ELSE IF failAt = 7 THEN Resp(Rollback(s, v6), 500, ServerError)
        ELSE Resp(Commit(s, v6), 201, "Employé créé avec succès et historique d'affectation initialisé !")


---------------------------------------------------------------------------
(* PUT /api/employee/:id *)

PlacementKeys == {"site_id", "department_id", "service_id", "team_id", "position", "fonction"}
BodyKeys ==
    PlacementKeys \cup {"matricule", "statut", "user_id", "genre", "telephone_principal",
                        "motif_changement", "commentaire_changement"}

\* employeeUpdateSchema: every field optional, .min(1) wants one key at least.
employeeUpdateSchema(body) == \E k \in BodyKeys : ~IsNull(body[k])

\* a change detection that takes every supplied field for a change
Supplied(x, cur) == ~IsNull(x)

\* a && a !== b on an optional request field
SuppliedAndDiffers(x, cur) == ~IsNull(x) /\ Val(x) # cur

\* a change detection that looks at the site only
OnlySiteChange(fieldsToUpdate, currentEmployee) ==
    ~IsNull(fieldsToUpdate.site_id) /\ Val(fieldsToUpdate.site_id) # currentEmployee.site_id

isAffectationChange(fieldsToUpdate, currentEmployee) ==
    \/ SuppliedAndDiffers(fieldsToUpdate.site_id, currentEmployee.site_id)
    \/ SuppliedAndDiffers(fieldsToUpdate.department_id, currentEmployee.department_id)
    \/ SuppliedAndDiffers(fieldsToUpdate.service_id, currentEmployee.service_id)
    \/ SuppliedAndDiffers(fieldsToUpdate.team_id, currentEmployee.team_id)
    \/ SuppliedAndDiffers(fieldsToUpdate.position, currentEmployee.position)
    \/ SuppliedAndDiffers(fieldsToUpdate.fonction, currentEmployee.fonction)

\* WHERE employee_id = ? AND date_fin IS NULL ORDER BY date_debut DESC LIMIT 1:
\* the rows the UPDATE may pick (one of them, the order among equal date_debut
\* being the store's).
CloseTargets(v, e) ==
    { a \in OpenAffectations(v, e) :
        \A b \in OpenAffectations(v, e) :
            v.employee_affectations[b].date_debut <= v.employee_affectations[a].date_debut }

\* a closing UPDATE that matches no row
NoPick(v, e) == {0}

\* The values pick may take for the UPDATE above: a target, or 0 when no row matches.
ClosePicks(v, e) == IF CloseTargets(v, e) = {} THEN {0} ELSE CloseTargets(v, e)

\* a closing UPDATE that leaves the record open
KeepOpen(v, d, fieldsToUpdate, pick) == v

\* a closing UPDATE with date_fin = CURDATE()
CloseToday(v, d, fieldsToUpdate, pick) ==
    IF pick = 0 THEN v
    ELSE [v EXCEPT !.employee_affectations[pick].date_fin = Some(d)]

\* UPDATE employee_affectations SET date_fin = CURDATE() - INTERVAL 1 DAY, ...
CloseAffectation(v, d, fieldsToUpdate, pick) ==
    IF pick = 0 THEN v
    ELSE [v EXCEPT !.employee_affectations[pick] =
            [@ EXCEPT !.date_fin = Some(d - 1),
                      !.commentaire = Some(CommentaireFin(
                          OrElse(fieldsToUpdate.motif_changement, "Mutation/Changement de poste"))),
                      !.created_by_user_id = ReqUser]]

\* The row of INSERT INTO employee_affectations (...) VALUES (?, CURDATE(), ...)
AffectationRow(d, employeeId, fieldsToUpdate, currentEmployee) ==
    [ employee_id |-> employeeId, date_debut |-> d, date_fin |-> Null,
      motif |-> Val(fieldsToUpdate.motif_changement),
      commentaire |-> fieldsToUpdate.commentaire_changement,
      created_by_user_id |-> ReqUser,
      site_id_ancien |-> Some(currentEmployee.site_id),
      department_id_ancien |-> Some(currentEmployee.department_id),
      service_id_ancien |-> Some(currentEmployee.service_id),
      team_id_ancien |-> Some(currentEmployee.team_id),
      position_ancienne |-> Some(currentEmployee.position),
      fonction_ancienne |-> Some(currentEmployee.fonction),
      site_id_nouveau |->
          Some(OrElse(fieldsToUpdate.site_id, currentEmployee.site_id)),
      department_id_nouveau |->
          Some(OrElse(fieldsToUpdate.department_id, currentEmployee.department_id)),
      service_id_nouveau |->
          Some(OrElse(fieldsToUpdate.service_id, currentEmployee.service_id)),
      team_id_nouveau |->
          Some(OrElse(fieldsToUpdate.team_id, currentEmployee.team_id)),
      position_nouvelle |->
          Some(OrElse(fieldsToUpdate.position, currentEmployee.position)),
      fonction_nouvelle |->
          Some(OrElse(fieldsToUpdate.fonction, currentEmployee.fonction)) ]

InsertAffectation(v, d, employeeId, fieldsToUpdate, currentEmployee) ==
    [v EXCEPT !.employee_affectations =
        Put(@, insertId(@), AffectationRow(d, employeeId, fieldsToUpdate, currentEmployee))]

\* buildUpdateQuery(employeeFields, 'employees', employeeId): SET the supplied
\* columns WHERE id = ?
UpdateEmployees(v, employeeId, fieldsToUpdate) ==
    IF employeeId \notin DOMAIN v.employees THEN v
    ELSE [v EXCEPT !.employees[employeeId] =
            [ matricule |-> SetIfSupplied(fieldsToUpdate.matricule, @.matricule),
              site_id |-> SetIfSupplied(fieldsToUpdate.site_id, @.site_id),
              department_id |-> SetIfSupplied(fieldsToUpdate.department_id, @.department_id),
              service_id |-> SetIfSupplied(fieldsToUpdate.service_id, @.service_id),
              team_id |-> SetIfSupplied(fieldsToUpdate.team_id, @.team_id),
              position |-> SetIfSupplied(fieldsToUpdate.position, @.position),
              fonction |-> SetIfSupplied(fieldsToUpdate.fonction, @.fonction),
              statut |-> SetIfSupplied(fieldsToUpdate.statut, @.statut),
              user_id |-> IF IsNull(fieldsToUpdate.user_id) THEN @.user_id
                          ELSE fieldsToUpdate.user_id,
              position_id |-> @.position_id,
              date_fin_contrat |-> @.date_fin_contrat ]]

\* buildUpdateQuery(personalFields, 'employee_personal', employeeId, 'employee_id')
UpdatePersonal(v, employeeId, fieldsToUpdate) ==
    IF employeeId \notin DOMAIN v.employee_personal THEN v
    ELSE [v EXCEPT !.employee_personal[employeeId].genre = SetIfSupplied(fieldsToUpdate.genre, @)]

\* buildUpdateQuery(contactFields, 'employee_contact', employeeId, 'employee_id')
UpdateContact(v, employeeId, fieldsToUpdate) ==
    IF employeeId \notin DOMAIN v.employee_contact THEN v
    ELSE [v EXCEPT !.employee_contact[employeeId].telephone_principal =
            SetIfSupplied(fieldsToUpdate.telephone_principal, @)]

\* The handler; failAt = k makes the k-th store call throw (0: none does), pick
\* is the row the closing UPDATE takes.
PutEmployee(s, d, employeeId, fieldsToUpdate, failAt, pick) ==
    LET currentEmployee == s.employees[employeeId]
        changed == isAffectationChange(fieldsToUpdate, currentEmployee)
        v2 == IF changed THEN CloseAffectation(s, d, fieldsToUpdate, pick) ELSE s
        v3 == IF changed
              THEN InsertAffectation(v2, d, employeeId, fieldsToUpdate, currentEmployee)
              ELSE v2
        v4 == UpdateEmployees(v3, employeeId, fieldsToUpdate)
        v5 == UpdatePersonal(v4, employeeId, fieldsToUpdate)
        v6 == UpdateContact(v5, employeeId, fieldsToUpdate)
    IN  IF ~employeeUpdateSchema(fieldsToUpdate) THEN Resp(Rollback(s, s), 400, JoiError)
        ELSE IF failAt = 1 THEN Resp(Rollback(s, s), 500, ServerError)
        ELSE IF employeeId \notin DOMAIN s.employees
            THEN Resp(Rollback(s, s), 404, "Employé non trouvé.")
        ELSE IF changed /\ IsNull(fieldsToUpdate.motif_changement)
            THEN Resp(Rollback(s, s), 400, MotifObligatoire)
        ELSE IF changed /\ failAt = 2 THEN Resp(Rollback(s, s), 500, ServerError)
        ELSE IF changed /\ failAt = 3 THEN Resp(Rollback(s, v2), 500, ServerError)
        ELSE IF failAt = 4 THEN Resp(Rollback(s, v3), 500, ServerError)
        ELSE IF failAt = 5 THEN Resp(Rollback(s, v4), 500, ServerError)
        ELSE IF failAt = 6 THEN Resp(Rollback(s, v5), 500, ServerError)
        ELSE IF failAt = 7 THEN Resp(Rollback(s, v6), 500, ServerError)
        ELSE [store |-> Commit(s, v6),
              response |-> [status |-> 200, message |-> "Employé modifié avec succès. Historique mis à jour !",
                            affectationChanged |-> changed]]

---------------------------------------------------------------------------
(* DELETE /api/employee/:id *)

\* a client without FOUND_ROWS: affectedRows counts the rows the UPDATE changed
changedRows(v, employeeId) ==
    IF employeeId \in DOMAIN v.employees /\ v.employees[employeeId].statut # "Licencié"
    THEN 1 ELSE 0

\* UPDATE employees SET statut = 'Licencié' WHERE id = ?  The mysql2 client
\* connects with FOUND_ROWS among its default flags, so result.affectedRows
\* counts the rows the WHERE clause matched, changed or not.
affectedRows(v, employeeId) == IF employeeId \in DOMAIN v.employees THEN 1 ELSE 0

SetLicencie(v, employeeId) ==
    IF employeeId \notin DOMAIN v.employees THEN v
    ELSE [v EXCEPT !.employees[employeeId].statut = "Licencié"]

\* UPDATE employee_affectations SET date_fin = CURDATE(), motif = CONCAT(...)
\* WHERE employee_id = ? AND date_fin IS NULL
CloseAllAffectations(v, d, employeeId) ==
    [v EXCEPT !.employee_affectations =
        [a \in DOMAIN @ |->
            IF a \in OpenAffectations(v, employeeId)
            THEN [@[a] EXCEPT !.date_fin = Some(d), !.motif = MotifArchivage,
                              !.created_by_user_id = ReqUser]
            ELSE @[a]]]

\* an archive that keeps the user-account link
KeepUserId(v, employeeId) == v

\* UPDATE employees SET user_id = NULL WHERE id = ?
ClearUserId(v, employeeId) ==
    IF employeeId \notin DOMAIN v.employees THEN v
    ELSE [v EXCEPT !.employees[employeeId].user_id = Null]

DeleteEmployee(s, d, employeeId, failAt) ==
    LET v1 == SetLicencie(s, employeeId)
        v2 == CloseAllAffectations(v1, d, employeeId)
        v3 == ClearUserId(v2, employeeId)
    IN  IF failAt = 1 THEN Resp(Rollback(s, s), 500, ServerError)
        ELSE IF affectedRows(s, employeeId) = 0
            THEN Resp(Rollback(s, v1), 404, "Employé non trouvé.")
        ELSE IF failAt = 2 THEN Resp(Rollback(s, v1), 500, ServerError)
        ELSE IF failAt = 3 THEN Resp(Rollback(s, v2), 500, ServerError)
        ELSE IF failAt = 4 THEN Resp(Rollback(s, v3), 500, ServerError)
        ELSE Resp(Commit(s, v3), 200, "Employé archivé (licencié) avec succès. Historique finalisé.")


---------------------------------------------------------------------------
(* POST /api/hr/contracts and POST /api/hr/sanctions *)

contractSchema(body) ==
    /\ body.employee_id >= 1
    /\ body.is_avenant => ~IsNull(body.parent_contract_id)

\* an employee check that does not look at statut
KnownEmployee(v, employeeId) == employeeId \in DOMAIN v.employees

ActiveEmployee(v, employeeId) ==
    employeeId \in DOMAIN v.employees /\ v.employees[employeeId].statut = "Actif"

\* the handler without its exclusivity SELECT
NoActiveContracts(v, employeeId) == {}

activeContracts(v, employeeId) ==
    { c \in DOMAIN v.contracts :
        /\ v.contracts[c].employee_id = employeeId
        /\ v.contracts[c].statut = "Actif"
        /\ ~v.contracts[c].is_avenant }

\* INSERT INTO contracts: statut takes the column default.
InsertContract(v, body) ==
    LET id == insertId(v.contracts)
        row == [ employee_id |-> body.employee_id, statut |-> "Actif",
                 is_avenant |-> body.is_avenant, position_id |-> body.position_id,
                 parent_contract_id |-> body.parent_contract_id ]
    IN [v EXCEPT !.contracts = Put(@, id, row)]

\* the handler without its UPDATE of employees
KeepPositionId(v, body) == v

\* UPDATE employees SET position_id = ? WHERE id = ?
SetPositionId(v, body) ==
    IF body.employee_id \notin DOMAIN v.employees THEN v
    ELSE [v EXCEPT !.employees[body.employee_id].position_id = Some(body.position_id)]

PostContract(s, body, failAt) ==
    LET v3 == InsertContract(s, body)
        v4 == IF ~body.is_avenant THEN SetPositionId(v3, body) ELSE v3
    IN  IF ~contractSchema(body) THEN Resp(Rollback(s, s), 400, JoiError)
        ELSE IF failAt = 1 THEN Resp(Rollback(s, s), 500, ServerError)
        ELSE IF ~ActiveEmployee(s, body.employee_id)
            THEN Resp(Rollback(s, s), 404, "Employé actif non trouvé.")
        ELSE IF ~body.is_avenant /\ failAt = 2 THEN Resp(Rollback(s, s), 500, ServerError)
        ELSE IF ~body.is_avenant /\ activeContracts(s, body.employee_id) # {}
            THEN Resp(Rollback(s, s), 409, "Un contrat principal est déjà ACTIF pour cet employé.")
        ELSE IF failAt = 3 THEN Resp(Rollback(s, s), 500, ServerError)
        ELSE IF ~body.is_avenant /\ failAt = 4 THEN Resp(Rollback(s, v3), 500, ServerError)
        ELSE IF failAt = 5 THEN Resp(Rollback(s, v4), 500, ServerError)
        ELSE Resp(Commit(s, v4), 201, "Contrat enregistré avec succès.")

sanctionSchema(body) == body.employee_id >= 1

InsertSanction(v, body) ==
    LET id == insertId(v.sanctions)
        row == [ employee_id |-> body.employee_id, type_sanction |-> body.type_sanction,
                 date_effet |-> body.date_effet, created_by_user_id |-> ReqUser ]
    IN [v EXCEPT !.sanctions = Put(@, id, row)]

\* the UPDATE without date_fin_contrat
StatutOnly(v, body) ==
    IF body.employee_id \notin DOMAIN v.employees THEN v
    ELSE [v EXCEPT !.employees[body.employee_id].statut = "Licencié"]

\* UPDATE employees SET statut = "Licencié", date_fin_contrat = ? WHERE id = ?
Licencier(v, body) ==
    IF body.employee_id \notin DOMAIN v.employees THEN v
    ELSE [v EXCEPT !.employees[body.employee_id].statut = "Licencié",
                   !.employees[body.employee_id].date_fin_contrat = Some(body.date_effet)]

PostSanction(s, body, failAt) ==
    LET v2 == InsertSanction(s, body)
        v3 == IF body.type_sanction = "Licenciement" THEN Licencier(v2, body) ELSE v2
    IN  IF ~sanctionSchema(body) THEN Resp(Rollback(s, s), 400, JoiError)
        ELSE IF failAt = 1 THEN Resp(Rollback(s, s), 500, ServerError)
        ELSE IF body.employee_id \notin DOMAIN s.employees
            THEN Resp(Rollback(s, s), 404, "Employé non trouvé.")
        ELSE IF failAt = 2 THEN Resp(Rollback(s, s), 500, ServerError)
        ELSE IF body.type_sanction = "Licenciement" /\ failAt = 3
            THEN Resp(Rollback(s, v2), 500, ServerError)
        ELSE IF failAt = 4 THEN Resp(Rollback(s, v3), 500, ServerError)
        ELSE Resp(Commit(s, v3), 201, "Sanction enregistrée avec succès.")

---------------------------------------------------------------------------
(* The requests *)

HirePlacement ==
    [ site_id |-> 1, department_id |-> 1, service_id |-> 2, team_id |-> 1,
      position |-> "Agent", fonction |-> "Chef" ]

CreationBody(matricule, site_id, user_id) ==
    [ matricule |-> matricule, site_id |-> site_id,
      department_id |-> HirePlacement.department_id, service_id |-> HirePlacement.service_id,
      team_id |-> HirePlacement.team_id, position |-> HirePlacement.position,
      fonction |-> HirePlacement.fonction, genre |-> "M", telephone_principal |-> "t1",
      user_id |-> user_id ]

\* the well-formed hires
CreationBodies == { CreationBody(Some(m), 1, Some(7)) : m \in Matricules }

\* a hire with a site that does not exist, a hire without matricule
RefusedBodies ==
    { CreationBody(Some("M1"), MissingId, Some(7)), CreationBody(Null, 1, Some(7)) }

NoBody == [k \in BodyKeys |-> Null]
With(b, k, v) == [b EXCEPT ![k] = Some(v)]
Motive(b) == With(b, "motif_changement", "Mutation")
WithSubRecords(b) == With(With(b, "genre", "F"), "telephone_principal", "t2")

\* the placement parts of the update requests: between them every placement
\* field is supplied, with a value a hire does not use
PlacementBodies ==
    { With(NoBody, "site_id", 2), With(NoBody, "site_id", 1),
      With(With(With(With(With(NoBody, "department_id", 2), "service_id", 1),
          "team_id", 2), "position", "Chef"), "fonction", "Agent") }

UpdateBodies ==
    {Motive(NoBody), With(NoBody, "site_id", 2)} \cup { Motive(b) : b \in PlacementBodies }

RequestIds == EmpIds \cup {AbsentEmp}

Placement(row) ==
    <<row.site_id, row.department_id, row.service_id, row.team_id, row.position, row.fonction>>

\* the table sizes the model stops at
WithinBounds(s) ==
    /\ Cardinality(DOMAIN s.employee_affectations) <= MaxAff
    /\ Cardinality(DOMAIN s.contracts) <= MaxContracts
    /\ Cardinality(DOMAIN s.sanctions) <= MaxHr

NoRequests == [w \in {} |-> 0]
NoResponse == [status |-> 0, message |-> "none"]

Init ==
    /\ store = EmptyStore
    /\ today = 1
    /\ last = [op |-> "none", response |-> NoResponse]
    /\ nchanges = [e \in EmpIds |-> 0]
    /\ reqs = NoRequests
    /\ locks = NoRequests
    /\ ndone = NoRequests

\* One request handled from beginning to end: r is what its handler returns.
Answer(op, r) ==
    /\ WithinBounds(r.store)
    /\ store' = r.store
    /\ last' = [op |-> op, response |-> r.response]
    /\ nchanges' =
        [e \in EmpIds |->
            IF /\ e \in DOMAIN store.employees
               /\ Placement(r.store.employees[e]) # Placement(store.employees[e])
            THEN nchanges[e] + 1 ELSE nchanges[e]]
    /\ UNCHANGED <<today, reqs, locks, ndone>>

Tick ==
    /\ today < MaxDay
    /\ today' = today + 1
    /\ UNCHANGED <<store, last, nchanges, reqs, locks, ndone>>

Create ==
    \E body \in CreationBodies, failAt \in {0, 7} :
        /\ failAt = 0 \/ body = CreationBody(Some("M1"), 1, Some(7))
        /\ Answer("POST", PostEmployee(store, today, body, failAt))

Update ==
    \E id \in EmpIds, body \in UpdateBodies :
        \E pick \in ClosePicks(store, id) :
            Answer("PUT", PutEmployee(store, today, id, body, 0, pick))

Archive ==
    \E id \in EmpIds : Answer("DELETE", DeleteEmployee(store, today, id, 0))

Next == Tick \/ Create \/ Update \/ Archive

Spec == Init /\ [][Next]_vars

---------------------------------------------------------------------------
(* The employee routes together with the HR routes that write the employees
   table *)

HrUpdateBodies ==
    { Motive(With(NoBody, "site_id", 2)), Motive(With(NoBody, "site_id", 1)),
      With(NoBody, "statut", "Actif"), With(NoBody, "statut", "Licencié") }

ContractBodies ==
    [ employee_id : {0, 1, AbsentEmp}, is_avenant : BOOLEAN,
      position_id : {5}, parent_contract_id : {Null, Some(1)} ]

SanctionBodies ==
    [ employee_id : {0, 1, AbsentEmp},
      type_sanction : {"Blâme", "Licenciement"}, date_effet : {MaxDay} ]

CreateHr == Answer("POST", PostEmployee(store, today, CreationBody(Some("M1"), 1, Some(7)), 0))

UpdateHr ==
    \E body \in HrUpdateBodies :
        \E pick \in ClosePicks(store, 1) :
            Answer("PUT", PutEmployee(store, today, 1, body, 0, pick))

ArchiveHr == Answer("DELETE", DeleteEmployee(store, today, 1, 0))

Contract ==
    \E body \in ContractBodies, failAt \in {0, 4} :
        Answer("contracts", PostContract(store, body, failAt))

Sanction ==
    \E body \in SanctionBodies, failAt \in {0, 3} :
        Answer("sanctions", PostSanction(store, body, failAt))

NextHr == CreateHr \/ UpdateHr \/ ArchiveHr \/ Contract \/ Sanction

SpecHr == Init /\ [][NextHr]_vars

---------------------------------------------------------------------------
(* Two PUT /api/employee/:id in flight, one store call per step.

   db.js opens the pool without naming an isolation level, so each
   transaction runs under InnoDB's default, REPEATABLE READ:
   - a plain SELECT reads the committed rows (the snapshot of the
     transaction starts with it) and takes no lock;
   - an UPDATE reads the latest committed rows, locks the rows it scans
     and keeps the locks until commit or rollback; a transaction that needs
     a locked row waits;
   - AUTO_INCREMENT ids are handed out across transactions.
   The requests carry a motif and no sub-record field (the motif check
   passes, no UPDATE of employee_personal or employee_contact is issued) and
   no store call throws. *)

Workers == {1, 2}

Idle ==
    [ pc |-> "idle", id |-> 0, fieldsToUpdate |-> NoBody, currentEmployee |-> Null,
      changed |-> FALSE, raced |-> FALSE, view |-> EmptyStore, written |-> {} ]

ConcBodies ==
    { Motive(With(NoBody, "site_id", 2)), Motive(With(NoBody, "site_id", 1)),
      Motive(With(NoBody, "department_id", 2)) }

InFlight(w) == reqs[w].pc \notin {"idle", "done"}

\* an UPDATE that takes every row for free
Unlocked(w, l) == TRUE

\* no other transaction holds the row locks l
LockFree(w, l) == \A x \in Workers \ {w} : l \notin locks[x]

\* the rows of employee_affectations, committed or not
AllRows == DOMAIN store.employee_affectations \cup UNION { reqs[x].written : x \in Workers }

InitConc ==
    /\ store = EmptyStore
    /\ today = 1
    /\ last = [op |-> "none", response |-> NoResponse]
    /\ nchanges = [e \in EmpIds |-> 0]
    /\ reqs = [w \in Workers |-> Idle]
    /\ locks = [w \in Workers |-> {}]
    /\ ndone = [w \in Workers |-> 0]

\* the hire, handled while no update is in flight
HireConc ==
    /\ DOMAIN store.employees = {}
    /\ Answer("POST", PostEmployee(store, today, CreationBody(Some("M1"), 1, Some(7)), 0))

\* getConnection, beginTransaction, employeeUpdateSchema.validate
Begin(w) ==
    /\ ~InFlight(w)
    /\ ndone[w] < MaxReq
    /\ Cardinality(AllRows) + Cardinality({ x \in Workers : InFlight(x) }) < MaxAff
    /\ \E id \in DOMAIN store.employees, body \in ConcBodies :
        reqs' = [x \in Workers |->
                    IF x = w
                    THEN [Idle EXCEPT !.pc = "select", !.id = id, !.fieldsToUpdate = body,
                                      !.raced = \E y \in Workers \ {w} :
                                                    InFlight(y) /\ reqs[y].id = id]
                    ELSE IF InFlight(x) /\ reqs[x].id = id
                         THEN [reqs[x] EXCEPT !.raced = TRUE]
                         ELSE reqs[x]]
    /\ UNCHANGED <<store, today, last, nchanges, locks, ndone>>

\* SELECT ... FROM employees WHERE id = ?, then isAffectationChange
Select(w) ==
    /\ reqs[w].pc = "select"
    /\ LET currentEmployee == store.employees[reqs[w].id]
           changed == isAffectationChange(reqs[w].fieldsToUpdate, currentEmployee)
       IN  reqs' = [reqs EXCEPT ![w].currentEmployee = Some(currentEmployee),
                                ![w].changed = changed,
                                ![w].pc = IF changed THEN "close" ELSE "update"]
    /\ UNCHANGED <<store, today, last, nchanges, locks, ndone>>

\* UPDATE employee_affectations SET date_fin = ... WHERE employee_id = ? AND
\* date_fin IS NULL ORDER BY date_debut DESC LIMIT 1
Close(w) ==
    /\ reqs[w].pc = "close"
    /\ LockFree(w, <<"employee_affectations", reqs[w].id>>)
    /\ \E pick \in ClosePicks(store, reqs[w].id) :
        reqs' = [reqs EXCEPT
                    ![w].view = CloseAffectation(store, today, reqs[w].fieldsToUpdate, pick),
                    ![w].written = {pick} \ {0},
                    ![w].pc = "insert"]
    /\ locks' = [locks EXCEPT ![w] = @ \cup {<<"employee_affectations", reqs[w].id>>}]
    /\ UNCHANGED <<store, today, last, nchanges, ndone>>

\* INSERT INTO employee_affectations, from the placement the SELECT read
Insert(w) ==
    /\ reqs[w].pc = "insert"
    /\ LET id == Max(AllRows \cup {0}) + 1
           row == AffectationRow(today, reqs[w].id, reqs[w].fieldsToUpdate,
                                 Val(reqs[w].currentEmployee))
       IN  reqs' = [reqs EXCEPT
                       ![w].view.employee_affectations = Put(@, id, row),
                       ![w].written = @ \cup {id},
                       ![w].pc = "update"]
    /\ UNCHANGED <<store, today, last, nchanges, locks, ndone>>

\* UPDATE employees SET the supplied columns WHERE id = ?
UpdateRow(w) ==
    /\ reqs[w].pc = "update"
    /\ LockFree(w, <<"employees", reqs[w].id>>)
    /\ reqs' = [reqs EXCEPT
                   ![w].view.employees =
                       UpdateEmployees(store, reqs[w].id, reqs[w].fieldsToUpdate).employees,
                   ![w].pc = "commit"]
    /\ locks' = [locks EXCEPT ![w] = @ \cup {<<"employees", reqs[w].id>>}]
    /\ UNCHANGED <<store, today, last, nchanges, ndone>>

\* connection.commit(), res.status(200)
CommitTx(w) ==
    /\ reqs[w].pc = "commit"
    /\ store' =
        [store EXCEPT
            !.employee_affectations =
                [a \in DOMAIN @ \cup reqs[w].written |->
                    IF a \in reqs[w].written THEN reqs[w].view.employee_affectations[a]
                    ELSE @[a]],
            !.employees = [@ EXCEPT ![reqs[w].id] = reqs[w].view.employees[reqs[w].id]]]
    /\ last' = [op |-> "PUT",
                response |-> [status |-> 200,
                              message |-> "Employé modifié avec succès. Historique mis à jour !",
                              affectationChanged |-> reqs[w].changed]]
    /\ nchanges' = [nchanges EXCEPT ![reqs[w].id] = IF reqs[w].changed THEN @ + 1 ELSE @]
    /\ reqs' = [reqs EXCEPT ![w].pc = "done"]
    /\ locks' = [locks EXCEPT ![w] = {}]
    /\ ndone' = [ndone EXCEPT ![w] = @ + 1]
    /\ UNCHANGED today

NextConc ==
    \/ HireConc
    \/ \E w \in Workers :
        Begin(w) \/ Select(w) \/ Close(w) \/ Insert(w) \/ UpdateRow(w) \/ CommitTx(w)

SpecConc == InitConc /\ [][NextConc]_vars

---------------------------------------------------------------------------
(* Vocabulary of the properties *)

Affectation(a) == store.employee_affectations[a]

NewSnapshot(r) ==
    <<r.site_id_nouveau, r.department_id_nouveau, r.service_id_nouveau,
      r.team_id_nouveau, r.position_nouvelle, r.fonction_nouvelle>>

OldSnapshot(r) ==
    <<r.site_id_ancien, r.department_id_ancien, r.service_id_ancien,
      r.team_id_ancien, r.position_ancienne, r.fonction_ancienne>>

\* the pairs <<k, k+1>> of records of employee e that follow each other in
\* the order of creation
Consecutive(e) ==
    { p \in AffectationsOf(store, e) \X AffectationsOf(store, e) :
        /\ p[1] < p[2]
        /\ \A c \in AffectationsOf(store, e) : ~(p[1] < c /\ c < p[2]) }

\* no archive has touched the history of employee e
NeverArchived(e) ==
    \A a \in AffectationsOf(store, e) : Affectation(a).motif # MotifArchivage

\* the request supplies a placement field with a value other than the row's
ChangesPlacement(body, row) ==
    \E k \in PlacementKeys : ~IsNull(body[k]) /\ Val(body[k]) # row[k]

ProbeValues(k) == IF k \in {"position", "fonction"} THEN Postes ELSE StructIds

\* the update requests the handler is probed with in every reachable store:
\* no placement field or one, of either value, once with a motif and once
\* without but with fields of the live row and of the sub-records; and the
\* empty request
PlacementProbes ==
    {NoBody} \cup UNION { { With(NoBody, k, v) : v \in ProbeValues(k) } : k \in PlacementKeys }

ProbeBodies ==
    {NoBody} \cup UNION { { Motive(b), With(WithSubRecords(b), "statut", "Suspendu") } :
                          b \in PlacementProbes }

---------------------------------------------------------------------------
(* Properties of the employee routes, requests handled one after the other *)

\* C3: a hired employee whose history no archive has touched has one record
\* more than the placement changes committed for it; in the order of creation
\* the dates of the records do not decrease, every record but the last is
\* closed with date_fin exactly one day before the next record's date_debut
\* (changes made on the day of the hire or of an earlier change included),
\* and the last record is the open one.
C3_Timeline ==
    \A e \in DOMAIN store.employees :
        NeverArchived(e) =>
            /\ Cardinality(AffectationsOf(store, e)) = nchanges[e] + 1
            /\ \A p \in Consecutive(e) :
                /\ Affectation(p[1]).date_debut <= Affectation(p[2]).date_debut
                /\ Affectation(p[1]).date_fin = Some(Affectation(p[2]).date_debut - 1)
            /\ OpenAffectations(store, e) = {Max(AffectationsOf(store, e))}

\* two changes were committed for an employee, one of them on the day the
\* record it closes was opened, another one on a later day
C3_Witness ==
    \E e \in DOMAIN store.employees :
        /\ NeverArchived(e)
        /\ nchanges[e] = 2
        /\ \E p \in Consecutive(e) : Affectation(p[1]).date_debut = Affectation(p[2]).date_debut
        /\ \E p \in Consecutive(e) : Affectation(p[1]).date_debut < Affectation(p[2]).date_debut

\* C4: for every employee and every two records that follow each other in the
\* order of creation, the six new-snapshot fields of the earlier record are
\* the six old-snapshot fields of the later one.
C4_SnapshotChain ==
    \A e \in DOMAIN store.employees :
        \A p \in Consecutive(e) :
            NewSnapshot(Affectation(p[1])) = OldSnapshot(Affectation(p[2]))

\* an employee has three records, and the third starts from a placement that
\* is not the one of the hire
C4_Witness ==
    \E e \in DOMAIN store.employees :
        \E p \in Consecutive(e), q \in Consecutive(e) :
            /\ p[2] = q[1]
            /\ OldSnapshot(Affectation(q[2])) # OldSnapshot(Affectation(p[2]))
            /\ NewSnapshot(Affectation(q[2])) # NewSnapshot(Affectation(q[1]))

\* C5: in every committed state every employee has at most one record with
\* date_fin NULL: the record a placement change closes and the record it
\* inserts are never both open.
C5_AtMostOneOpen ==
    \A e \in DOMAIN store.employees : Cardinality(OpenAffectations(store, e)) <= 1

\* a placement change has just been committed: the employee it was for has a
\* closed record and, after it, an open one
C5_Witness ==
    /\ last.op = "PUT" /\ last.response.status = 200 /\ last.response.affectationChanged
    /\ \E e \in DOMAIN store.employees :
        \E p \in Consecutive(e) :
            /\ ~IsNull(Affectation(p[1]).date_fin)
            /\ IsNull(Affectation(p[2]).date_fin)

\* C6: in every reachable store, an update of an existing employee that
\* supplies another value for one of the six placement fields and no
\* motif_changement is answered 400 and leaves the whole store as it was:
\* the live row, the sub-records and the affectation history.
C6_MotifRequired ==
    \A id \in DOMAIN store.employees, body \in ProbeBodies :
        (ChangesPlacement(body, store.employees[id]) /\ IsNull(body.motif_changement)) =>
            \A pick \in ClosePicks(store, id) :
                LET r == PutEmployee(store, today, id, body, 0, pick)
                IN  /\ r.response.status = 400
                    /\ r.store.employees = store.employees
                    /\ r.store.employee_personal = store.employee_personal
                    /\ r.store.employee_contact = store.employee_contact
                    /\ r.store.employee_affectations = store.employee_affectations

\* an update has just been refused for want of a motif, for an employee that
\* has been through a placement change before
C6_Witness ==
    /\ last.op = "PUT"
    /\ last.response.status = 400 /\ last.response.message = MotifObligatoire
    /\ \E e \in DOMAIN store.employees : nchanges[e] >= 1 /\ Cardinality(Consecutive(e)) >= 1


\* C7: in every reachable store, a creation answered 201 adds one employee
\* row, its personal and contact rows and exactly one affectation record of
\* that employee, with date_debut today, date_fin NULL, motif "Embauche
\* initiale", the six old-snapshot fields NULL and the new snapshot equal to
\* the submitted placement, and touches no other row; a creation answered
\* anything else, whichever store call failed, leaves the store as it was.
C7_HireRecord ==
    \A body \in CreationBodies \cup RefusedBodies, failAt \in 0..7 :
        LET r == PostEmployee(store, today, body, failAt)
        IN  IF r.response.status = 201
            THEN \E n \in DOMAIN r.store.employees \ DOMAIN store.employees :
                    /\ DOMAIN r.store.employees = DOMAIN store.employees \cup {n}
                    /\ \A e \in DOMAIN store.employees :
                           r.store.employees[e] = store.employees[e]
                    /\ DOMAIN r.store.employee_personal = DOMAIN store.employee_personal \cup {n}
                    /\ DOMAIN r.store.employee_contact = DOMAIN store.employee_contact \cup {n}
                    /\ \E a \in DOMAIN r.store.employee_affectations
                                  \ DOMAIN store.employee_affectations :
                           LET row == r.store.employee_affectations[a]
                           IN  /\ AffectationsOf(r.store, n) = {a}
                               /\ DOMAIN r.store.employee_affectations =
                                      DOMAIN store.employee_affectations \cup {a}
                               /\ \A b \in DOMAIN store.employee_affectations :
                                      r.store.employee_affectations[b] =
                                          store.employee_affectations[b]
                               /\ row.date_debut = today
                               /\ row.date_fin = Null
                               /\ row.motif = "Embauche initiale"
                               /\ OldSnapshot(row) = <<Null, Null, Null, Null, Null, Null>>
                               /\ NewSnapshot(row) =
                                      <<Some(body.site_id), Some(body.department_id),
                                        Some(body.service_id), Some(body.team_id),
                                        Some(body.position), Some(body.fonction)>>
            ELSE r.store = store

\* a second employee has just been hired, on a later day than the first, next
\* to a history that already holds a placement change
C7_Witness ==
    /\ last.op = "POST" /\ last.response.status = 201
    /\ Cardinality(DOMAIN store.employees) = 2
    /\ \E a \in AffectationsOf(store, 2) :
           /\ Affectation(a).date_debut = today
           /\ \E b \in AffectationsOf(store, 1) : Affectation(b).date_debut < today
    /\ Cardinality(AffectationsOf(store, 1)) = 2

\* C8: in every reachable store, an archive answered 200 leaves the employee
\* with statut Licencié and user_id NULL, every record of the employee that
\* was open closed with date_fin today, none of its records open, and every
\* other affectation record as it was.
C8_Archive ==
    \A id \in DOMAIN store.employees :
        LET r == DeleteEmployee(store, today, id, 0)
        IN  r.response.status = 200 =>
                /\ r.store.employees[id].statut = "Licencié"
                /\ r.store.employees[id].user_id = Null
                /\ OpenAffectations(r.store, id) = {}
                /\ DOMAIN r.store.employee_affectations = DOMAIN store.employee_affectations
                /\ \A a \in DOMAIN store.employee_affectations :
                       IF a \in OpenAffectations(store, id)
                       THEN r.store.employee_affectations[a].date_fin = Some(today)
                       ELSE r.store.employee_affectations[a] = store.employee_affectations[a]

\* an employee has just been archived: it is Licencié without user account,
\* its last record is closed today, and the other employee's record is open
C8_Witness ==
    /\ last.op = "DELETE" /\ last.response.status = 200
    /\ \E e \in DOMAIN store.employees, f \in DOMAIN store.employees :
        /\ e # f
        /\ store.employees[e].statut = "Licencié"
        /\ store.employees[e].user_id = Null
        /\ \E a \in AffectationsOf(store, e) :
               Affectation(a).date_fin = Some(today) /\ Affectation(a).motif = MotifArchivage
        /\ OpenAffectations(store, e) = {}
        /\ OpenAffectations(store, f) # {}

\* C9, as the specification states it: archiving an employee whose statut is
\* Licencié is answered 404 and changes nothing.
C9_RepeatArchiveRefused ==
    \A id \in DOMAIN store.employees :
        store.employees[id].statut = "Licencié" =>
            LET r == DeleteEmployee(store, today, id, 0)
            IN  r.response.status = 404 /\ r.store = store

\* C9, as the code has it: the archive of an employee row is answered 200
\* whatever its statut, Licencié included, and changes nothing when the
\* employee is Licencié with no user account and no open record; only the
\* archive of an id without employee row is answered 404, and it changes
\* nothing.
C9_RepeatArchive ==
    \A id \in RequestIds :
        LET r == DeleteEmployee(store, today, id, 0)
        IN  IF id \in DOMAIN store.employees
            THEN /\ r.response.status = 200
                 /\ ( /\ store.employees[id].statut = "Licencié"
                      /\ store.employees[id].user_id = Null
                      /\ OpenAffectations(store, id) = {} ) => r.store = store
            ELSE r.response.status = 404 /\ r.store = store

\* an archive has just been answered 200 for an employee that an earlier
\* archive had left Licencié: two of its records were closed by an archive
C9_Witness ==
    /\ last.op = "DELETE" /\ last.response.status = 200
    /\ \E e \in DOMAIN store.employees :
        /\ store.employees[e].statut = "Licencié"
        /\ \E p \in Consecutive(e) :
               /\ Affectation(p[1]).motif = MotifArchivage
               /\ Affectation(p[2]).motif = MotifArchivage
               /\ Affectation(p[2]).date_fin = Some(today)

\* C10: in every reachable store, an update of an existing employee whose
\* supplied placement fields all hold the current values, or that supplies
\* none, leaves employee_affectations as it was, with or without a motif; when
\* it supplies a field at all it is answered 200 without affectation change,
\* the supplied columns of the live row and of the sub-records take the
\* supplied values and every other column and row keeps its value.
C10_NoChangeNoHistory ==
    \A id \in DOMAIN store.employees, body \in ProbeBodies :
        ~ChangesPlacement(body, store.employees[id]) =>
            \A pick \in ClosePicks(store, id) :
                LET r == PutEmployee(store, today, id, body, 0, pick)
                    old == store.employees[id]
                    new == r.store.employees[id]
                IN  /\ r.store.employee_affectations = store.employee_affectations
                    /\ body # NoBody =>
                        /\ r.response.status = 200
                        /\ ~r.response.affectationChanged
                        /\ \A k \in PlacementKeys \cup {"matricule", "statut"} :
                               new[k] = IF IsNull(body[k]) THEN old[k] ELSE Val(body[k])
                        /\ new.user_id = IF IsNull(body.user_id) THEN old.user_id ELSE body.user_id
                        /\ new.position_id = old.position_id
                        /\ new.date_fin_contrat = old.date_fin_contrat
                        /\ r.store.employee_personal[id].genre =
                               IF IsNull(body.genre) THEN store.employee_personal[id].genre
                               ELSE Val(body.genre)
                        /\ r.store.employee_contact[id].telephone_principal =
                               IF IsNull(body.telephone_principal)
                               THEN store.employee_contact[id].telephone_principal
                               ELSE Val(body.telephone_principal)
                        /\ \A e \in DOMAIN store.employees \ {id} :
                               /\ r.store.employees[e] = store.employees[e]
                               /\ r.store.employee_personal[e] = store.employee_personal[e]
                               /\ r.store.employee_contact[e] = store.employee_contact[e]

\* an update that supplied the current site and a motif has just been
\* answered 200 without affectation change, for an employee with a history
C10_Witness ==
    /\ last.op = "PUT"
    /\ last.response.status = 200 /\ ~last.response.affectationChanged
    /\ \E e \in DOMAIN store.employees : Cardinality(AffectationsOf(store, e)) >= 2

---------------------------------------------------------------------------
(* Properties of the employee routes together with the HR routes *)

\* C1, as the specification states it: every employee has exactly one record
\* with date_fin NULL, after any sequence of updates, archives, sanctions and
\* contracts.
C1_ExactlyOneOpen ==
    \A e \in DOMAIN store.employees : Cardinality(OpenAffectations(store, e)) = 1

\* C1, as the code has it: every employee has a history; when the most recent
\* record of the employee is one an archive closed, no record of the employee
\* is open, and otherwise the most recent record is open and it alone.
C1_OneOpenUnlessArchived ==
    \A e \in DOMAIN store.employees :
        /\ AffectationsOf(store, e) # {}
        /\ LET latest == Max(AffectationsOf(store, e))
           IN  OpenAffectations(store, e) =
                   IF Affectation(latest).motif = MotifArchivage THEN {} ELSE {latest}

\* an archived employee has been through a sanction and a contract and has no
\* open record
C1_Witness ==
    /\ DOMAIN store.sanctions # {}
    /\ DOMAIN store.contracts # {}
    /\ \E e \in DOMAIN store.employees :
        /\ OpenAffectations(store, e) = {}
        /\ Cardinality(AffectationsOf(store, e)) >= 2

---------------------------------------------------------------------------
(* Properties of two updates in flight *)

\* C2: whatever the interleaving of the store calls of the updates in flight,
\* in every committed state the employee has exactly one record with date_fin
\* NULL and one record more than the affectation-changing updates committed
\* for it: two such updates that ran at the same time and both committed
\* leave one open record and two new records.
C2_ConcurrentChanges ==
    \A e \in DOMAIN store.employees :
        /\ Cardinality(OpenAffectations(store, e)) = 1
        /\ Cardinality(AffectationsOf(store, e)) = nchanges[e] + 1

\* both workers have committed an affectation-changing update of the same
\* employee, the two were in flight together and both read the placement of
\* the hire: the two new records start from the same old snapshot
C2_Witness ==
    /\ \A w \in Workers : reqs[w].pc = "done" /\ reqs[w].changed /\ reqs[w].raced
    /\ reqs[1].id = reqs[2].id
    /\ reqs[1].fieldsToUpdate # reqs[2].fieldsToUpdate
    /\ reqs[1].currentEmployee = reqs[2].currentEmployee
    /\ ndone = [w \in Workers |-> 1]
    /\ Cardinality(AffectationsOf(store, reqs[1].id)) = 3
    /\ \E p \in Consecutive(reqs[1].id) :
           /\ p[1] > 1
           /\ OldSnapshot(Affectation(p[1])) = OldSnapshot(Affectation(p[2]))

---------------------------------------------------------------------------
(* Placement and history, over every operation that writes the employees
   table *)

\* C11: every step that changes a placement field (site, department, service,
\* team, position, function) of the live row of an employee appends a record
\* to the history of that employee and leaves none of the earlier records of
\* the employee open: no committed update, contract, sanction or archive
\* changes a placement without history.
C11_HistoryForEveryChange ==
    [][ \A e \in DOMAIN store.employees :
            Placement(store'.employees[e]) # Placement(store.employees[e]) =>
                /\ AffectationsOf(store', e) \ AffectationsOf(store, e) # {}
                /\ OpenAffectations(store', e) \cap AffectationsOf(store, e) = {} ]_vars

\* an update that supplied the site it read, in flight together with an
\* update that moved the employee, has committed without affectation change
\* and the live row no longer holds the placement it read
C11_Witness ==
    \E w \in Workers :
        /\ reqs[w].pc = "done"
        /\ reqs[w].raced /\ ~reqs[w].changed
        /\ nchanges[reqs[w].id] = 1
        /\ Cardinality(AffectationsOf(store, reqs[w].id)) = 2
        /\ Placement(store.employees[reqs[w].id]) = Placement(Val(reqs[w].currentEmployee))
        /\ Affectation(Max(AffectationsOf(store, reqs[w].id))).site_id_nouveau
               # Some(store.employees[reqs[w].id].site_id)

---------------------------------------------------------------------------
(* calculateHours

   A time of day is the list of numbers time.split(':').map(Number) yields:
   <<hours, minutes>> for the 'HH:MM' of a request, <<hours, minutes, seconds>>
   for a TIME column read back. Decimal numbers (hours, percentages) are
   carried in thousandths, so that toFixed(2) has something to round. *)

MathMin(a, b) == IF a <= b THEN a ELSE b
MathMax(a, b) == IF a >= b THEN a ELSE b

\* the times /^([0-1]?[0-9]|2[0-3]):[0-5][0-9]$/ accepts
Times == (0..23) \X (0..59)

timeToMinutes(time) == time[1] * 60 + time[2]

\* parseFloat(x.toFixed(2)): the nearest hundredth, halves away from zero
toFixed(x) ==
    IF x >= 0 THEN ((x + 5) \div 10) * 10 ELSE -((((-x) + 5) \div 10) * 10)

\* rounding to the nearest quarter of an hour
roundedToNearest(totalMinutes) == ((totalMinutes + 7) \div 15) * 250

\* Math.ceil(totalMinutes / 60 * 4) / 4. The double totalMinutes / 60 * 4 is
\* exact when totalMinutes is a multiple of 15 and is otherwise at least 1/15
\* away from an integer, so Math.ceil yields the ceiling of totalMinutes / 15;
\* \div rounds down, also below zero.
totalHoursRounded(totalMinutes) == (-((-totalMinutes) \div 15)) * 250

baseNormalHours == 8000

\* a meal allowance only beyond ten hours
panierStrict(T) == T > 10000

panierRepas(T) == T >= 10000

\* the Sunday rate first
SundayFirst(isHoliday, isSunday, majorationFeriee) ==
    IF isSunday THEN 60000 ELSE IF isHoliday THEN majorationFeriee ELSE 0

\* the Sunday rate on every special day
FlatRate(isHoliday, isSunday, majorationFeriee) ==
    IF isHoliday \/ isSunday THEN 60000 ELSE 0

majoration(isHoliday, isSunday, majorationFeriee) ==
    IF isHoliday /\ isSunday THEN 100000
    ELSE IF isHoliday THEN majorationFeriee
    ELSE IF isSunday THEN 60000
    ELSE 0

\* every overtime hour in the first tier
Untiered(overtimeHours) == overtimeHours

overtime15(overtimeHours) == MathMin(overtimeHours, 2000)

\* a second tier that starts at the eighth hour
FromEighthHour(overtimeHours) == overtimeHours

overtime40(overtimeHours) == MathMax(0, overtimeHours - 2000)

calculateHours(heure_entree, heure_sortie, isHoliday, isSunday, majorationFeriee) ==
    LET totalMinutes == timeToMinutes(heure_sortie) - timeToMinutes(heure_entree)
        T == totalHoursRounded(totalMinutes)
        normalHours == MathMin(T, baseNormalHours)
        overtimeHours == MathMax(0, T - baseNormalHours)
    IN  IF isHoliday \/ isSunday
        THEN [ totalHours |-> T,
               heures_normales |-> toFixed(0),
               heures_sup_15 |-> 0,
               heures_sup_40 |-> 0,
               heures_supplementaires |-> toFixed(T),
               majoration_pourcentage |->
                   toFixed(majoration(isHoliday, isSunday, majorationFeriee)),
               panierRepas |-> panierRepas(T) ]
        ELSE [ totalHours |-> T,
               heures_normales |-> toFixed(normalHours),
               heures_sup_15 |-> toFixed(overtime15(overtimeHours)),
               heures_sup_40 |-> toFixed(overtime40(overtimeHours)),
               heures_supplementaires |->
                   toFixed(overtime15(overtimeHours) + overtime40(overtimeHours)),
               majoration_pourcentage |-> 0,
               panierRepas |-> panierRepas(T) ]

---------------------------------------------------------------------------
(* calculateHours applied to the times and rates the schemas let through *)

\* the entry times the function is applied to: midnight (every duration of a
\* day follows), a morning and an afternoon (exits before the entry follow)
EntryTimes == { <<0, 0>>, <<8, 0>>, <<14, 20>> }

\* the rates of a holiday, in thousandths of a percent: ferieSchema's bounds
\* 0 and 100, its default 60.00 and a rate with two decimals
Majorations == { 0, 12250, 60000, 100000 }

HoursCalls ==
    [ heure_entree : EntryTimes, heure_sortie : Times,
      isHoliday : BOOLEAN, isSunday : BOOLEAN, majorationFeriee : Majorations ]

InitHours ==
    /\ store = EmptyStore
    /\ today = 1
    /\ last = [op |-> "none", response |-> NoResponse]
    /\ nchanges = [e \in EmpIds |-> 0]
    /\ reqs \in HoursCalls
    /\ locks = NoRequests
    /\ ndone = NoRequests

Calculate ==
    /\ last.op = "none"
    /\ last' = [op |-> "calculateHours",
                response |-> calculateHours(reqs.heure_entree, reqs.heure_sortie,
                                            reqs.isHoliday, reqs.isSunday,
                                            reqs.majorationFeriee)]
    /\ UNCHANGED <<store, today, nchanges, reqs, locks, ndone>>

SpecHours == InitHours /\ [][Calculate]_vars

---------------------------------------------------------------------------
(* Properties of calculateHours *)

\* the call has returned
Calculated == last.op = "calculateHours"

\* exit - entry of the call, in minutes
Worked == timeToMinutes(reqs.heure_sortie) - timeToMinutes(reqs.heure_entree)

\* the smallest multiple of a quarter of an hour, in thousandths of an hour,
\* that is not below m minutes (m * 50 / 3 thousandths)
QuarterUp(m) ==
    CHOOSE t \in { 250 * k : k \in 0..96 } : t * 3 >= m * 50 /\ (t - 250) * 3 < m * 50

\* C12: on an ordinary day (no holiday, no Sunday) with the exit after the
\* entry, T being the worked time rounded up to the quarter of an hour,
\* heures_normales is min(T, 8), heures_sup_15 is min(max(0, T - 8), 2),
\* heures_sup_40 is max(0, T - 10), heures_supplementaires is their sum and
\* majoration_pourcentage is 0, whatever rate is passed for a holiday.
C12_OrdinaryDay ==
    (Calculated /\ ~reqs.isHoliday /\ ~reqs.isSunday /\ Worked > 0) =>
        LET T == QuarterUp(Worked)
            r == last.response
        IN  /\ r.heures_normales = MathMin(T, 8000)
            /\ r.heures_sup_15 = MathMin(MathMax(0, T - 8000), 2000)
            /\ r.heures_sup_40 = MathMax(0, T - 10000)
            /\ r.heures_supplementaires = r.heures_sup_15 + r.heures_sup_40
            /\ r.majoration_pourcentage = 0

\* an ordinary day of 10 h 35 with a holiday rate of 100 passed: eight normal
\* hours, both tiers used
C12_Witness ==
    /\ Calculated /\ ~reqs.isHoliday /\ ~reqs.isSunday
    /\ Worked = 635 /\ reqs.majorationFeriee = 100000
    /\ last.response.heures_normales = 8000
    /\ last.response.heures_sup_15 = 2000
    /\ last.response.heures_sup_40 = 750

\* C13: the surcharge goes by the first case that applies, in the order Sunday
\* and holiday, holiday alone, Sunday alone, ordinary day:
\* majoration_pourcentage is 100 on a Sunday holiday whatever rate the holiday
\* carries, the rate of the holiday on a holiday alone, 60 on a Sunday alone
\* and 0 otherwise.
C13_FirstMatch ==
    Calculated =>
        last.response.majoration_pourcentage =
            CASE reqs.isHoliday /\ reqs.isSunday -> 100000
              [] reqs.isHoliday /\ ~reqs.isSunday -> reqs.majorationFeriee
              [] ~reqs.isHoliday /\ reqs.isSunday -> 60000
              [] OTHER -> 0

\* a Sunday holiday whose rate is 12.25 has been answered 100
C13_Witness ==
    /\ Calculated /\ reqs.isHoliday /\ reqs.isSunday
    /\ reqs.majorationFeriee = 12250
    /\ last.response.majoration_pourcentage = 100000

\* C14, as the specification states it: on a holiday, a Sunday or both, for
\* every input, heures_normales, heures_sup_15 and heures_sup_40 are 0,
\* heures_supplementaires is the whole rounded total and
\* majoration_pourcentage is not 0.
C14_SpecialDayNonzero ==
    (Calculated /\ (reqs.isHoliday \/ reqs.isSunday)) =>
        /\ last.response.heures_normales = 0
        /\ last.response.heures_sup_15 = 0
        /\ last.response.heures_sup_40 = 0
        /\ last.response.heures_supplementaires = last.response.totalHours
        /\ last.response.majoration_pourcentage # 0

\* C14, as the code has it: on a holiday, a Sunday or both, for every input,
\* heures_normales, heures_sup_15 and heures_sup_40 are 0 and
\* heures_supplementaires is the whole rounded total; majoration_pourcentage
\* is 0 exactly on a holiday that is no Sunday and carries the rate 0, and at
\* least 60 on every Sunday.
C14_SpecialDay ==
    (Calculated /\ (reqs.isHoliday \/ reqs.isSunday)) =>
        /\ last.response.heures_normales = 0
        /\ last.response.heures_sup_15 = 0
        /\ last.response.heures_sup_40 = 0
        /\ last.response.heures_supplementaires = last.response.totalHours
        /\ last.response.majoration_pourcentage = 0
               <=> (~reqs.isSunday /\ reqs.majorationFeriee = 0)
        /\ reqs.isSunday => last.response.majoration_pourcentage >= 60000

\* twelve hours and a quarter on a holiday that carries the rate 0: all of
\* them in heures_supplementaires, at 0 percent
C14_Witness ==
    /\ Calculated /\ reqs.isHoliday /\ ~reqs.isSunday
    /\ reqs.majorationFeriee = 0
    /\ Worked = 735
    /\ last.response.heures_supplementaires = 12250
    /\ last.response.majoration_pourcentage = 0

\* C15: with the exit after the entry, totalHours is the smallest multiple of
\* a quarter of an hour that is not below exit - entry; a worked time that is
\* a multiple of 15 minutes is returned as it is.
C15_QuarterCeiling ==
    (Calculated /\ Worked > 0) =>
        LET T == last.response.totalHours
        IN  /\ T % 250 = 0
            /\ T * 3 >= Worked * 50
            /\ (T - 250) * 3 < Worked * 50
            /\ Worked % 15 = 0 => T * 3 = Worked * 50

\* 9 h 46 has been rounded to 10 h
C15_Witness ==
    /\ Calculated
    /\ Worked = 586
    /\ last.response.totalHours = 10000

\* C16: on every kind of day the meal allowance is due exactly when the
\* rounded total is at least 10 hours, which is when more than 9 h 45 were
\* worked: 9 h 46 gives the allowance, 9 h 45 does not.
C16_MealAllowance ==
    Calculated =>
        /\ last.response.panierRepas <=> last.response.totalHours >= 10000
        /\ last.response.panierRepas <=> Worked > 585

\* 9 h 46 on a Sunday holiday: the allowance is due
C16_Witness ==
    /\ Calculated /\ reqs.isHoliday /\ reqs.isSunday
    /\ Worked = 586
    /\ last.response.panierRepas

---------------------------------------------------------------------------
(* The time routes: POST /feries, POST /checkin, PUT /checkout/:employeeId

   The three handlers call db.query on the pool, without a transaction: every
   statement is committed on its own and the statements of two requests in
   flight interleave freely. A request is therefore modelled one store call
   per step. No statement of the handlers relies on a key of the tables other
   than the AUTO_INCREMENT id, and none is modelled: an INSERT succeeds
   whatever rows exist. Of the other tables the handlers read employees
   alone. *)

\* the store s together with the tables of the time routes, empty
WithTimeTables(s) ==
    [ employees |-> s.employees,
      jours_feries |-> <<>>,
      attendances |-> <<>>,
      leave_requests |-> <<>>,
      leave_validations |-> <<>> ]

\* day 1 is a Saturday: new Date().getDay() is 0 on day 2
dayOfWeek(d) == (d + 5) % 7

\* the day the server was started on, which checkinSchema keeps as the
\* default of date_pointage
StartDay == 1

ferieSchema(body) ==
    body.majoration_pourcentage >= 0 /\ body.majoration_pourcentage <= 100000

checkinSchema(body) == body.employee_id >= 1 /\ body.heure_entree \in Times

checkoutSchema(body) == body.heure_sortie \in Times

\* SELECT id FROM jours_feries WHERE date_feriee = ?
FeriesOn(v, d) == { f \in DOMAIN v.jours_feries : v.jours_feries[f].date_feriee = d }

\* POST /feries, handled from beginning to end
PostFerie(s, body) ==
    IF ~ferieSchema(body) THEN Resp(s, 400, JoiError)
    ELSE IF FeriesOn(s, body.date_feriee) # {}
    THEN Resp(s, 409, "Un jour férié est déjà enregistré à cette date.")
    ELSE Resp([s EXCEPT !.jours_feries =
                  Put(@, insertId(@),
                      [ date_feriee |-> body.date_feriee,
                        majoration_pourcentage |-> body.majoration_pourcentage,
                        actif |-> TRUE ])],
              201, "Jour férié ajouté avec succès.")

\* SELECT id FROM attendances WHERE employee_id = ? AND date_pointage = ?
AttendancesOf(v, e, d) ==
    { a \in DOMAIN v.attendances :
        v.attendances[a].employee_id = e /\ v.attendances[a].date_pointage = d }

\* INSERT INTO attendances (employee_id, date_pointage, heure_entree, source):
\* the columns that are not listed stay NULL; the TIME column reads back as
\* 'HH:MM:00'
InsertAttendance(v, value) ==
    [v EXCEPT !.attendances =
        Put(@, insertId(@),
            [ employee_id |-> value.employee_id,
              date_pointage |-> OrElse(value.date_pointage, StartDay),
              heure_entree |-> Append(value.heure_entree, 0),
              source |-> "Manuel",
              heure_sortie |-> Null,
              heures_normales |-> Null, heures_sup_15 |-> Null, heures_sup_40 |-> Null,
              heures_sup_hors_majoration |-> Null,
              majoration_pourcentage |-> Null, panier_repas_du |-> Null ])]

\* the open records of the employee, whatever their day
OpenAnyDay(v, e, d) ==
    { a \in DOMAIN v.attendances :
        v.attendances[a].employee_id = e /\ IsNull(v.attendances[a].heure_sortie) }

\* SELECT * FROM attendances WHERE employee_id = ? AND date_pointage = ? AND
\* heure_sortie IS NULL
OpenAttendances(v, e, d) ==
    { a \in AttendancesOf(v, e, d) : IsNull(v.attendances[a].heure_sortie) }

\* UPDATE attendances SET heure_sortie = ?, heures_normales = ?, ...
\* WHERE id = ?
UpdateAttendance(v, id, heure_sortie, calculatedHours) ==
    [v EXCEPT !.attendances[id] =
        [@ EXCEPT !.heure_sortie = Some(Append(heure_sortie, 0)),
                  !.heures_normales = Some(calculatedHours.heures_normales),
                  !.heures_sup_15 = Some(calculatedHours.heures_sup_15),
                  !.heures_sup_40 = Some(calculatedHours.heures_sup_40),
                  !.heures_sup_hors_majoration = Some(calculatedHours.heures_supplementaires),
                  !.majoration_pourcentage = Some(calculatedHours.majoration_pourcentage),
                  !.panier_repas_du = Some(calculatedHours.panierRepas)]]

\* the body of the 200 of a checkout
CheckoutResponse(calculatedHours) ==
    [ status |-> 200,
      message |-> "Pointage de sortie enregistré et heures calculées avec succès (Règles SOGAS appliquées).",
      totalHours |-> calculatedHours.totalHours,
      heures_normales |-> calculatedHours.heures_normales,
      heures_sup_15 |-> calculatedHours.heures_sup_15,
      heures_sup_40 |-> calculatedHours.heures_sup_40,
      majoration_pourcentage_speciale |-> calculatedHours.majoration_pourcentage,
      panier_repas_du |-> calculatedHours.panierRepas ]

---------------------------------------------------------------------------
(* One employee, two requests of the time routes in flight *)

Waiting ==
    [ pc |-> "idle", op |-> "none", value |-> Null, employeeId |-> 0, dateToday |-> 0,
      attendance |-> 0, calculatedHours |-> Null ]

\* the days a request is handled on: the day the server was started, a
\* Saturday, or a later one
Days == StartDay..MaxDay

CheckinBodies(d) ==
    { [employee_id |-> 1, heure_entree |-> <<8, 0>>, date_pointage |-> Some(d)],
      [employee_id |-> 1, heure_entree |-> <<8, 0>>, date_pointage |-> Null],
      [employee_id |-> AbsentEmp, heure_entree |-> <<8, 0>>, date_pointage |-> Some(d)],
      [employee_id |-> 0, heure_entree |-> <<8, 0>>, date_pointage |-> Some(d)] }

CheckoutBodies == [ heure_sortie : { <<7, 0>>, <<18, 15>> } ]

FerieBodies(d) == [ date_feriee : {d}, majoration_pourcentage : {0, 60000, 100001} ]

InitTime ==
    /\ store = WithTimeTables(
                   PostEmployee(EmptyStore, StartDay, CreationBody(Some("M1"), 1, Some(7)), 0).store)
    /\ today \in Days
    /\ last = [op |-> "none", response |-> NoResponse]
    /\ nchanges = [e \in EmpIds |-> 0]
    /\ reqs = [w \in Workers |-> Waiting]
    /\ locks = NoRequests
    /\ ndone = [w \in Workers |-> 0]

\* res.status(...).json(...): the request of worker w is over
Respond(w, op, response) ==
    /\ last' = [op |-> op, response |-> response]
    /\ reqs' = [reqs EXCEPT ![w] = Waiting]
    /\ ndone' = [ndone EXCEPT ![w] = @ + 1]

Proceed(w, pc) == reqs' = [reqs EXCEPT ![w].pc = pc] /\ UNCHANGED <<last, ndone>>

Ferie ==
    /\ \A w \in Workers : reqs[w].pc = "idle"
    /\ \E body \in FerieBodies(today) :
        LET r == PostFerie(store, body)
        IN  /\ store' = r.store
            /\ last' = [op |-> "feries", response |-> r.response]
    /\ UNCHANGED <<today, nchanges, reqs, locks, ndone>>

\* checkinSchema.validate, then
\* SELECT id FROM employees WHERE id = ? AND statut = "Actif"
CheckinEmployee(w) ==
    /\ reqs[w].pc = "idle"
    /\ ndone[w] < MaxReq
    /\ \E body \in CheckinBodies(today) :
        IF ~checkinSchema(body)
        THEN Respond(w, "checkin", [status |-> 400, message |-> JoiError])
        ELSE IF ~ActiveEmployee(store, body.employee_id)
        THEN Respond(w, "checkin", [status |-> 404, message |-> "Employé actif non trouvé."])
        ELSE /\ reqs' = [reqs EXCEPT ![w] = [Waiting EXCEPT !.pc = "existing",
                                                          !.op = "checkin",
                                                          !.value = Some(body)]]
             /\ UNCHANGED <<last, ndone>>
    /\ UNCHANGED <<store, today, nchanges, locks>>

\* SELECT id FROM attendances WHERE employee_id = ? AND date_pointage = ?
CheckinExisting(w) ==
    /\ reqs[w].pc = "existing"
    /\ LET value == Val(reqs[w].value)
       IN  IF AttendancesOf(store, value.employee_id,
                            OrElse(value.date_pointage, StartDay)) # {}
           THEN Respond(w, "checkin",
                        [status |-> 409,
                         message |-> "Un pointage d'entrée est déjà enregistré pour cet employé aujourd'hui."])
           ELSE Proceed(w, "insert")
    /\ UNCHANGED <<store, today, nchanges, locks>>

\* INSERT INTO attendances, 201
CheckinInsert(w) ==
    /\ reqs[w].pc = "insert"
    /\ store' = InsertAttendance(store, Val(reqs[w].value))
    /\ Respond(w, "checkin",
               [status |-> 201, message |-> "Pointage d'entrée enregistré avec succès."])
    /\ UNCHANGED <<today, nchanges, locks>>

\* dateToday and dayOfWeek are read, checkoutSchema.validate, then
\* SELECT * FROM attendances WHERE ... AND heure_sortie IS NULL; attendance is
\* the first row, whichever the store lists first
CheckoutAttendance(w) ==
    /\ reqs[w].pc = "idle"
    /\ ndone[w] < MaxReq
    /\ \E body \in CheckoutBodies :
        LET attendanceRows == OpenAttendances(store, 1, today)
        IN  IF ~checkoutSchema(body)
            THEN Respond(w, "checkout", [status |-> 400, message |-> JoiError])
            ELSE IF attendanceRows = {}
            THEN Respond(w, "checkout",
                         [status |-> 404,
                          message |-> "Pointage d'entrée manquant ou déjà complété pour aujourd'hui."])
            ELSE /\ \E a \in attendanceRows :
                     reqs' = [reqs EXCEPT ![w] = [Waiting EXCEPT !.pc = "ferie",
                                                               !.op = "checkout",
                                                               !.value = Some(body),
                                                               !.employeeId = 1,
                                                               !.dateToday = today,
                                                               !.attendance = a]]
                 /\ UNCHANGED <<last, ndone>>
    /\ UNCHANGED <<store, today, nchanges, locks>>

\* SELECT majoration_pourcentage FROM jours_feries WHERE date_feriee = ? AND
\* actif = TRUE, then calculateHours on the entry time of the row the first
\* SELECT returned
CheckoutFerie(w) ==
    /\ reqs[w].pc = "ferie"
    /\ LET ferieRows == { f \in FeriesOn(store, reqs[w].dateToday) : store.jours_feries[f].actif }
           isHoliday == ferieRows # {}
           isSunday == dayOfWeek(reqs[w].dateToday) = 0
       IN  \E f \in IF isHoliday THEN ferieRows ELSE {0} :
               reqs' = [reqs EXCEPT
                   ![w].pc = "update",
                   ![w].calculatedHours =
                       Some(calculateHours(
                           store.attendances[reqs[w].attendance].heure_entree,
                           Val(reqs[w].value).heure_sortie, isHoliday, isSunday,
                           IF isHoliday THEN store.jours_feries[f].majoration_pourcentage
                           ELSE 0))]
    /\ UNCHANGED <<store, today, last, nchanges, locks, ndone>>

\* UPDATE attendances SET ... WHERE id = ?, 200
CheckoutUpdate(w) ==
    /\ reqs[w].pc = "update"
    /\ store' = UpdateAttendance(store, reqs[w].attendance, Val(reqs[w].value).heure_sortie,
                                 Val(reqs[w].calculatedHours))
    /\ Respond(w, "checkout", CheckoutResponse(Val(reqs[w].calculatedHours)))
    /\ UNCHANGED <<today, nchanges, locks>>

NextTime ==
    \/ Ferie
    \/ \E w \in Workers :
        \/ CheckinEmployee(w) \/ CheckinExisting(w) \/ CheckinInsert(w)
        \/ CheckoutAttendance(w) \/ CheckoutFerie(w) \/ CheckoutUpdate(w)

SpecTime == InitTime /\ [][NextTime]_vars

---------------------------------------------------------------------------
(* Properties of the time routes *)

HourColumns ==
    {"heures_normales", "heures_sup_15", "heures_sup_40", "heures_sup_hors_majoration"}

\* C17: no attendance record holds a negative heures_normales, heures_sup_15,
\* heures_sup_40 or heures_sup_hors_majoration, and no checkout is answered
\* with a negative total or a negative number of hours, an exit that is not
\* after the entry included.
C17_NoNegativeDuration ==
    /\ \A a \in DOMAIN store.attendances, k \in HourColumns :
           IsNull(store.attendances[a][k]) \/ Val(store.attendances[a][k]) >= 0
    /\ (last.op = "checkout" /\ last.response.status = 200) =>
           /\ last.response.totalHours >= 0
           /\ last.response.heures_normales >= 0
           /\ last.response.heures_sup_15 >= 0
           /\ last.response.heures_sup_40 >= 0

\* entry at 08:00, exit at 07:00 on an ordinary day: the checkout has been
\* answered 200 with a total of -1 hour and the record holds -1 normal hour
C17_Witness ==
    /\ last.op = "checkout" /\ last.response.status = 200
    /\ last.response.totalHours = -1000
    /\ \E a \in DOMAIN store.attendances :
           /\ store.attendances[a].heure_entree = <<8, 0, 0>>
           /\ store.attendances[a].heure_sortie = Some(<<7, 0, 0>>)
           /\ store.attendances[a].heures_normales = Some(-1000)

\* C18: whatever the interleaving of the statements of the check-ins, there
\* is at most one attendance record for an employee and a date.
C18_OneRecordPerDay ==
    \A a, b \in DOMAIN store.attendances :
        ( /\ store.attendances[a].employee_id = store.attendances[b].employee_id
          /\ store.attendances[a].date_pointage = store.attendances[b].date_pointage )
        => a = b

\* two check-ins of the employee for the same day have both been answered 201:
\* the second has just inserted its record next to the first
C18_Witness ==
    /\ last.op = "checkin" /\ last.response.status = 201
    /\ Cardinality(AttendancesOf(store, 1, today)) = 2
    /\ \A w \in Workers : reqs[w].pc = "idle"

\* C19: a record enters the table with heure_sortie and the derived columns
\* unset, and once its heure_sortie is set no step changes it any more, two
\* checkouts in flight for the same record included.
C19_CompletedOnce ==
    [][ /\ \A a \in DOMAIN store'.attendances \ DOMAIN store.attendances :
               /\ IsNull(store'.attendances[a].heure_sortie)
               /\ IsNull(store'.attendances[a].majoration_pourcentage)
               /\ IsNull(store'.attendances[a].panier_repas_du)
               /\ \A k \in HourColumns : IsNull(store'.attendances[a][k])
        /\ \A a \in DOMAIN store.attendances :
               ~IsNull(store.attendances[a].heure_sortie) =>
                   store'.attendances[a] = store.attendances[a] ]_vars

\* a checkout has read the open record and computed its hours; in between
\* another checkout has completed the record with another exit time, and the
\* UPDATE of the first, which names the record by id alone, comes next
C19_Witness ==
    \E w \in Workers :
        /\ reqs[w].pc = "update"
        /\ ~IsNull(store.attendances[reqs[w].attendance].heure_sortie)
        /\ store.attendances[reqs[w].attendance].heure_sortie
               # Some(Append(Val(reqs[w].value).heure_sortie, 0))
        /\ last.op = "checkout" /\ last.response.status = 200

---------------------------------------------------------------------------
(* POST /api/time/leaves. A date is a whole day. *)

MaxDate == 4    \* the last day a leave can reach
MaxLeave == 3   \* rows of the leave_requests table

\* Joi.date().iso().min('now') refuses the current day, whose midnight has
\* passed; date_fin is not before date_debut; nb_jours is at least 0.5
leaveRequestSchema(body, d) ==
    /\ body.employee_id >= 1
    /\ body.date_debut > d
    /\ body.date_fin >= body.date_debut
    /\ body.nb_jours * 2 >= 1

\* a date strictly between two others
Inside(x, lo, hi) == lo < x /\ x < hi

Between(x, lo, hi) == lo <= x /\ x <= hi

\* a test on the two ends of the new request alone
EndpointsOnly(v, value) ==
    { r \in DOMAIN v.leave_requests :
        /\ v.leave_requests[r].employee_id = value.employee_id
        /\ v.leave_requests[r].statut_actuel \in {"Soumis", "En attente", "Approuvé"}
        /\ \/ Between(value.date_debut, v.leave_requests[r].date_debut,
                      v.leave_requests[r].date_fin)
           \/ Between(value.date_fin, v.leave_requests[r].date_debut,
                      v.leave_requests[r].date_fin) }

\* SELECT id FROM leave_requests WHERE employee_id = ? AND statut_actuel IN
\* ('Soumis', 'En attente', 'Approuvé') AND ((? BETWEEN date_debut AND
\* date_fin) OR (? BETWEEN date_debut AND date_fin) OR (date_debut BETWEEN ?
\* AND ?))
overlap(v, value) ==
    { r \in DOMAIN v.leave_requests :
        /\ v.leave_requests[r].employee_id = value.employee_id
        /\ v.leave_requests[r].statut_actuel \in {"Soumis", "En attente", "Approuvé"}
        /\ \/ Between(value.date_debut, v.leave_requests[r].date_debut,
                      v.leave_requests[r].date_fin)
           \/ Between(value.date_fin, v.leave_requests[r].date_debut,
                      v.leave_requests[r].date_fin)
           \/ Between(v.leave_requests[r].date_debut, value.date_debut, value.date_fin) }

\* INSERT INTO leave_requests: statut_actuel takes the column default, 'Soumis'
InsertLeaveRequest(v, value) ==
    [v EXCEPT !.leave_requests =
        Put(@, insertId(@),
            [ employee_id |-> value.employee_id, type_conge |-> value.type_conge,
              date_debut |-> value.date_debut, date_fin |-> value.date_fin,
              nb_jours |-> value.nb_jours, motif_employe |-> Null,
              statut_actuel |-> "Soumis" ])]

\* a submission that opens no validation step
NoStep(v, requestId) == v

InsertLeaveValidation(v, requestId) ==
    [v EXCEPT !.leave_validations =
        Put(@, insertId(@),
            [ request_id |-> requestId, validateur_id |-> ReqUser,
              niveau_validation |-> "Soumission Employé", decision |-> "En attente",
              commentaire |-> "Demande soumise par l'employé." ])]

LeaveConflict == "Une demande de congés (soumise ou approuvée) existe déjà sur cette période."

PostLeave(s, d, body, failAt) ==
    LET requestId == insertId(s.leave_requests)
        v3 == InsertLeaveRequest(s, body)
        v4 == InsertLeaveValidation(v3, requestId)
    IN  IF ~leaveRequestSchema(body, d) THEN Resp(Rollback(s, s), 400, JoiError)
        ELSE IF failAt = 1 THEN Resp(Rollback(s, s), 500, ServerError)
        ELSE IF ~ActiveEmployee(s, body.employee_id)
            THEN Resp(Rollback(s, s), 404,
                      "Employé actif non trouvé. Impossible de soumettre la demande.")
        ELSE IF failAt = 2 THEN Resp(Rollback(s, s), 500, ServerError)
        ELSE IF overlap(s, body) # {} THEN Resp(Rollback(s, s), 409, LeaveConflict)
        ELSE IF failAt = 3 THEN Resp(Rollback(s, s), 500, ServerError)
        ELSE IF failAt = 4 THEN Resp(Rollback(s, v3), 500, ServerError)
        ELSE IF failAt = 5 THEN Resp(Rollback(s, v4), 500, ServerError)
        ELSE [ store |-> Commit(s, v4),
               response |->
                   [ status |-> 201,
                     message |-> "Demande de congés soumise avec succès. Workflow de validation démarré.",
                     requestId |-> requestId ] ]

---------------------------------------------------------------------------
(* Two employees, leave submissions handled one after the other *)

LeaveBody(e, debut, fin) ==
    [ employee_id |-> e, type_conge |-> "Annuel", date_debut |-> debut, date_fin |-> fin,
      nb_jours |-> fin - debut + 1 ]

\* the submissions for the days ahead, an end before the beginning included
LeaveBodies ==
    { LeaveBody(e, debut, fin) :
        e \in EmpIds, debut \in (StartDay + 1)..MaxDate, fin \in (StartDay + 1)..MaxDate }

InitLeave ==
    /\ store = WithTimeTables(PostEmployee(
                   PostEmployee(EmptyStore, StartDay, CreationBody(Some("M1"), 1, Some(7)), 0).store,
                   StartDay, CreationBody(Some("M2"), 1, Some(7)), 0).store)
    /\ today = StartDay
    /\ last = [op |-> "none", response |-> NoResponse]
    /\ nchanges = [e \in EmpIds |-> 0]
    /\ reqs = NoRequests
    /\ locks = NoRequests
    /\ ndone = NoRequests

Leave ==
    \E body \in LeaveBodies, failAt \in {0, 4} :
        LET r == PostLeave(store, today, body, failAt)
        IN  /\ Cardinality(DOMAIN r.store.leave_requests) <= MaxLeave
            /\ store' = r.store
            /\ last' = [op |-> "leaves", response |-> r.response]
    /\ UNCHANGED <<today, nchanges, reqs, locks, ndone>>

SpecLeave == InitLeave /\ [][Leave]_vars

---------------------------------------------------------------------------
(* Properties of the leave submissions *)

\* the days of a request
LeaveDays(r) == r.date_debut..r.date_fin

\* the requests of the employee of the submission that count (Soumis, En
\* attente, Approuvé) and share a day with it
Intersected(body) ==
    { r \in DOMAIN store.leave_requests :
        /\ store.leave_requests[r].employee_id = body.employee_id
        /\ store.leave_requests[r].statut_actuel \in {"Soumis", "En attente", "Approuvé"}
        /\ LeaveDays(store.leave_requests[r]) \cap LeaveDays(body) # {} }

\* the submissions the handler is probed with: every employee id, known or
\* not, and every pair of days, today and ends before the beginning included
LeaveProbes ==
    { LeaveBody(e, debut, fin) :
        e \in {0} \cup EmpIds \cup {AbsentEmp}, debut \in StartDay..MaxDate,
        fin \in StartDay..MaxDate }

\* C20: no two requests of the same employee that count (Soumis, En attente,
\* Approuvé) share a day; in every reachable store a well-formed submission
\* of an active employee that shares a day with such a request of that
\* employee is answered 409 and leaves leave_requests and leave_validations,
\* and every other table, as they were.
C20_NoOverlappingLeaves ==
    /\ \A a, b \in DOMAIN store.leave_requests :
           ( /\ a # b
             /\ store.leave_requests[a].employee_id = store.leave_requests[b].employee_id
             /\ store.leave_requests[a].statut_actuel \in {"Soumis", "En attente", "Approuvé"}
             /\ store.leave_requests[b].statut_actuel \in {"Soumis", "En attente", "Approuvé"} )
           => LeaveDays(store.leave_requests[a]) \cap LeaveDays(store.leave_requests[b]) = {}
    /\ \A body \in LeaveProbes :
           ( /\ leaveRequestSchema(body, today)
             /\ ActiveEmployee(store, body.employee_id)
             /\ Intersected(body) # {} )
           => PostLeave(store, today, body, 0) = Resp(store, 409, LeaveConflict)

\* a submission has just been answered 409; its employee holds two requests,
\* and the other employee holds one over days the first has taken
C20_Witness ==
    /\ last.op = "leaves" /\ last.response.status = 409
    /\ Cardinality({ r \in DOMAIN store.leave_requests :
                       store.leave_requests[r].employee_id = 1 }) = 2
    /\ \E a, b \in DOMAIN store.leave_requests :
           /\ store.leave_requests[a].employee_id = 1
           /\ store.leave_requests[b].employee_id = 2
           /\ LeaveDays(store.leave_requests[a]) \cap LeaveDays(store.leave_requests[b]) # {}
    /\ Cardinality(DOMAIN store.leave_validations) = 3

---------------------------------------------------------------------------
(* The overlap test of POST /api/time/leaves applied to two ranges of days *)

RangeDays == StartDay..MaxDate

\* the store that holds one request of employee 1, over the days s2 to e2
OneLeave(s2, e2) ==
    InsertLeaveRequest(
        WithTimeTables(PostEmployee(EmptyStore, StartDay,
                                    CreationBody(Some("M1"), 1, Some(7)), 0).store),
        LeaveBody(1, s2, e2))

InitOverlap ==
    /\ store \in { OneLeave(s2, e2) : s2 \in RangeDays, e2 \in RangeDays }
    /\ today = StartDay
    /\ last = [op |-> "none", response |-> NoResponse]
    /\ nchanges = [e \in EmpIds |-> 0]
    /\ reqs \in { LeaveBody(1, s1, e1) : s1 \in RangeDays, e1 \in RangeDays }
    /\ locks = NoRequests
    /\ ndone = NoRequests

\* the SELECT of the overlap check, for the submission reqs
TestOverlap ==
    /\ last.op = "none"
    /\ last' = [op |-> "overlap", response |-> overlap(store, reqs) # {}]
    /\ UNCHANGED <<store, today, nchanges, reqs, locks, ndone>>

SpecOverlap == InitOverlap /\ [][TestOverlap]_vars

\* C21: for a new range [s1, e1] and an existing range [s2, e2] with
\* s1 <= e1 and s2 <= e2, the overlap test finds the existing request exactly
\* when s1 <= e2 and s2 <= e1: containment either way, partial overlap on
\* either side and a single shared day are found, disjoint ranges are not.
C21_OverlapTest ==
    LET s1 == reqs.date_debut
        e1 == reqs.date_fin
        s2 == store.leave_requests[1].date_debut
        e2 == store.leave_requests[1].date_fin
    IN  (last.op = "overlap" /\ s1 <= e1 /\ s2 <= e2) =>
            (last.response <=> (s1 <= e2 /\ s2 <= e1))

\* the new range holds the existing one strictly inside, neither end of the
\* new range lies in the existing one, and the test has found it
C21_Witness ==
    /\ last.op = "overlap" /\ last.response
    /\ reqs.date_debut < store.leave_requests[1].date_debut
    /\ store.leave_requests[1].date_debut <= store.leave_requests[1].date_fin
    /\ store.leave_requests[1].date_fin < reqs.date_fin

---------------------------------------------------------------------------
(* Leave requests and their validation steps *)

\* the validation steps of request r
StepsOf(r) ==
    { x \in DOMAIN store.leave_validations : store.leave_validations[x].request_id = r }

\* C22: in every committed state each leave request has exactly one
\* validation step, at level "Soumission Employé", with decision "En attente"
\* and the authenticated user as validateur, and each validation step belongs
\* to a request of the table.
C22_OneStepPerRequest ==
    /\ \A r \in DOMAIN store.leave_requests :
           /\ Cardinality(StepsOf(r)) = 1
           /\ \A x \in StepsOf(r) :
                  /\ store.leave_validations[x].niveau_validation = "Soumission Employé"
                  /\ store.leave_validations[x].decision = "En attente"
                  /\ store.leave_validations[x].validateur_id = ReqUser
    /\ \A x \in DOMAIN store.leave_validations :
           store.leave_validations[x].request_id \in DOMAIN store.leave_requests

\* two requests are in the table with their steps, and a third submission has
\* just failed (500) on the INSERT of its step
C22_Witness ==
    /\ last.op = "leaves" /\ last.response.status = 500
    /\ Cardinality(DOMAIN store.leave_requests) = 2
    /\ Cardinality(DOMAIN store.leave_validations) = 2

---------------------------------------------------------------------------
(* POST /api/hr/contracts: the exclusivity of the main contract *)

MainContractsOf(e) ==
    { c \in DOMAIN store.contracts :
        /\ store.contracts[c].employee_id = e
        /\ store.contracts[c].statut = "Actif"
        /\ store.contracts[c].is_avenant = FALSE }

AmendmentsOf(e) ==
    { c \in DOMAIN store.contracts :
        store.contracts[c].employee_id = e /\ store.contracts[c].is_avenant }

\* C23: a well-formed contract POST with is_avenant = false for an active
\* employee who already has an active non-amendment contract is answered 409
\* and leaves the store as it was; hence, after any sequence of contract POSTs
\* handled one after the other, no employee has two active non-amendment
\* contracts; and no POST with is_avenant = true is ever answered 409.
C23_OneMainContract ==
    /\ \A e \in EmpIds : Cardinality(MainContractsOf(e)) <= 1
    /\ \A body \in ContractBodies :
        /\ ( /\ ~body.is_avenant /\ contractSchema(body)
             /\ ActiveEmployee(store, body.employee_id)
             /\ MainContractsOf(body.employee_id) # {} )
           => /\ PostContract(store, body, 0).response.status = 409
              /\ PostContract(store, body, 0).store = store
        /\ body.is_avenant
           => \A failAt \in 0..5 : PostContract(store, body, failAt).response.status # 409

\* a main contract and an amendment are in the table and a second main
\* contract has just been refused
C23_Witness ==
    /\ last.op = "contracts" /\ last.response.status = 409
    /\ MainContractsOf(1) # {} /\ AmendmentsOf(1) # {}

\* C24: a contract POST answered 201 with is_avenant = false leaves the
\* employee row with position_id equal to the contract's position_id and every
\* other column as it was, and the contract row and that update are committed
\* together or not at all; a contract POST answered 201 with is_avenant = true
\* leaves the employees table as it was.
C24_PositionMirrored ==
    \A body \in ContractBodies, failAt \in 0..5 :
        LET r == PostContract(store, body, failAt)
            e == body.employee_id
        IN  /\ r.response.status = 201 => r.store.contracts # store.contracts
            /\ r.response.status # 201 => r.store = store
            /\ (r.store.contracts # store.contracts /\ ~body.is_avenant)
                => /\ r.store.employees[e].position_id = Some(body.position_id)
                   /\ r.store.employees =
                        [store.employees EXCEPT ![e].position_id = Some(body.position_id)]
            /\ (r.store.contracts # store.contracts /\ body.is_avenant)
                => r.store.employees = store.employees

\* a main contract has just been created and the employee carries its position
C24_Witness ==
    /\ last.op = "contracts" /\ last.response.status = 201
    /\ \E c \in MainContractsOf(1) :
        store.employees[1].position_id = Some(store.contracts[c].position_id)
    /\ AmendmentsOf(1) = {}

---------------------------------------------------------------------------
(* POST /api/hr/sanctions *)

\* C25: a sanction POST answered 201 with type_sanction = Licenciement leaves
\* the employee row with statut = Licencié and date_fin_contrat = the
\* sanction's date_effet and every other column as it was, and the sanction row
\* and that update are committed together or not at all; a sanction POST
\* answered 201 with any other type leaves the employees table as it was.
C25_Licenciement ==
    \A body \in SanctionBodies, failAt \in 0..4 :
        LET r == PostSanction(store, body, failAt)
            e == body.employee_id
        IN  /\ r.response.status = 201 => r.store.sanctions # store.sanctions
            /\ r.response.status # 201 => r.store = store
            /\ (r.store.sanctions # store.sanctions /\ body.type_sanction = "Licenciement")
                => /\ r.store.employees[e].statut = "Licencié"
                   /\ r.store.employees[e].date_fin_contrat = Some(body.date_effet)
                   /\ r.store.employees =
                        [store.employees EXCEPT
                            ![e].statut = "Licencié",
                            ![e].date_fin_contrat = Some(body.date_effet)]
            /\ (r.store.sanctions # store.sanctions /\ body.type_sanction # "Licenciement")
                => r.store.employees = store.employees

\* a Licenciement has just been recorded against an employee who was dismissed by it
C25_Witness ==
    /\ last.op = "sanctions" /\ last.response.status = 201
    /\ \E x \in DOMAIN store.sanctions :
        /\ store.sanctions[x].type_sanction = "Licenciement"
        /\ store.employees[store.sanctions[x].employee_id].statut = "Licencié"
        /\ store.employees[store.sanctions[x].employee_id].date_fin_contrat
            = Some(store.sanctions[x].date_effet)

---------------------------------------------------------------------------
(* The connection calls of a transactional handler, one request at a time.

   Every write handler has the same frame: getConnection and beginTransaction
   before the try block, the exits of the try block and the catch, and release
   in the finally block.  Two handlers are followed call by call: POST
   /api/employee, and POST /api/hr/contracts, whose exits are those of every
   other write handler.

   ndone is the list of the calls of the request in hand, reqs the request
   with the committed store it found, locks whether the connection has a
   transaction open. *)

NoRequest == [route |-> "none", before |-> EmptyStore]

\* the calls of the try block and the catch of POST /api/employee
employeeExit(s, d, body, failAt) ==
    IF ~employeeCreationSchema(body) THEN <<"json">>
    ELSE IF PostEmployee(s, d, body, failAt).response.status = 201 THEN <<"commit", "json">>
    ELSE <<"rollback", "json">>

\* the calls of the try block and the catch of POST /api/hr/contracts
contractExit(s, body, failAt) ==
    IF PostContract(s, body, failAt).response.status = 201 THEN <<"commit", "json">>
    ELSE <<"rollback", "json">>

Called(calls, name) == \E i \in DOMAIN calls : calls[i] = name

CalledBefore(calls, first, then) ==
    \E i, j \in DOMAIN calls : i < j /\ calls[i] = first /\ calls[j] = then

InHand == ndone # <<>> /\ ndone[Len(ndone)] # "release"

TxnBodies == CreationBodies \cup RefusedBodies

InitTxn ==
    /\ store = EmptyStore
    /\ today = StartDay
    /\ last = [op |-> "none", response |-> NoResponse]
    /\ nchanges = [e \in EmpIds |-> 0]
    /\ reqs = NoRequest
    /\ locks = FALSE
    /\ ndone = <<>>

\* const connection = await db.getConnection(); await connection.beginTransaction();
\* a transaction the connection still had open ends there.
EnterEmployee ==
    \E body \in TxnBodies, failAt \in {0, 4} :
        /\ ~InHand
        /\ WithinBounds(PostEmployee(store, today, body, failAt).store)
        /\ reqs' = [route |-> "employee", before |-> store, body |-> body, failAt |-> failAt]
        /\ ndone' = <<"getConnection", "beginTransaction">>
        /\ locks' = TRUE
        /\ UNCHANGED <<store, today, last, nchanges>>

EnterContract ==
    \E body \in ContractBodies, failAt \in {0, 4} :
        /\ ~InHand
        /\ WithinBounds(PostContract(store, body, failAt).store)
        /\ reqs' = [route |-> "contracts", before |-> store, body |-> body, failAt |-> failAt]
        /\ ndone' = <<"getConnection", "beginTransaction">>
        /\ locks' = TRUE
        /\ UNCHANGED <<store, today, last, nchanges>>

\* the try block and the catch, up to the response
TryEmployee ==
    /\ InHand /\ reqs.route = "employee" /\ ~Called(ndone, "json")
    /\ LET r == PostEmployee(store, today, reqs.body, reqs.failAt)
           exit == employeeExit(store, today, reqs.body, reqs.failAt)
       IN  /\ store' = r.store
           /\ last' = [op |-> "POST", response |-> r.response]
           /\ ndone' = ndone \o exit
           /\ locks' = ~(Called(exit, "commit") \/ Called(exit, "rollback"))
    /\ UNCHANGED <<today, nchanges, reqs>>

TryContract ==
    /\ InHand /\ reqs.route = "contracts" /\ ~Called(ndone, "json")
    /\ LET r == PostContract(store, reqs.body, reqs.failAt)
           exit == contractExit(store, reqs.body, reqs.failAt)
       IN  /\ store' = r.store
           /\ last' = [op |-> "contracts", response |-> r.response]
           /\ ndone' = ndone \o exit
           /\ locks' = ~(Called(exit, "commit") \/ Called(exit, "rollback"))
    /\ UNCHANGED <<today, nchanges, reqs>>

\* finally { connection.release(); }
Finally ==
    /\ InHand /\ Called(ndone, "json")
    /\ ndone' = Append(ndone, "release")
    /\ UNCHANGED <<store, today, last, nchanges, reqs, locks>>

NextTxn == EnterEmployee \/ EnterContract \/ TryEmployee \/ TryContract \/ Finally

SpecTxn == InitTxn /\ [][NextTxn]_vars

ErrorStatuses == {400, 404, 409, 500}

\* C26: once a write handler that began a transaction has answered with an
\* error status, it has called rollback before the response, it does not
\* release the connection without that rollback, and the committed store is
\* the one the request found.
C26_RollbackOnEveryError ==
    (Called(ndone, "json") /\ last.response.status \in ErrorStatuses)
        => /\ CalledBefore(ndone, "rollback", "json")
           /\ Called(ndone, "release") => CalledBefore(ndone, "rollback", "release")
           /\ store = reqs.before

\* a hire without matricule has been answered 400 and its connection released
\* with the transaction it began still open
C26_Witness ==
    /\ reqs.route = "employee" /\ last.response = [status |-> 400, message |-> JoiError]
    /\ ndone = <<"getConnection", "beginTransaction", "json", "release">>
    /\ locks

---------------------------------------------------------------------------
(* Hires and updates of two employees, the updates naming a matricule or a
   structure row.  employeeUpdateSchema accepts any matricule of 50 characters
   at most and any structure id from 1 on. *)

PutBodies ==
    { With(NoBody, "matricule", m) : m \in Matricules }
        \cup { Motive(With(NoBody, k, id)) :
                k \in {"site_id", "team_id"}, id \in {2, MissingId} }

CreatePut ==
    \E body \in CreationBodies \cup RefusedBodies :
        /\ insertId(store.employees) \in EmpIds
        /\ Answer("POST", PostEmployee(store, today, body, 0))

UpdatePut ==
    \E id \in RequestIds, body \in PutBodies :
        \E pick \in ClosePicks(store, id) :
            Answer("PUT", PutEmployee(store, today, id, body, 0, pick))

NextPut == CreatePut \/ UpdatePut

SpecPut == Init /\ [][NextPut]_vars

\* C27: no two employee rows have the same matricule, after any sequence of
\* employee creations and updates.
C27_MatriculeUnique ==
    \A e, f \in DOMAIN store.employees :
        store.employees[e].matricule = store.employees[f].matricule => e = f

\* an update has just given one employee the matricule of another
C27_Witness ==
    /\ last.op = "PUT" /\ last.response.status = 200
    /\ \E e, f \in DOMAIN store.employees :
        e # f /\ store.employees[e].matricule = store.employees[f].matricule

\* C28: in every committed state each employee's site_id, department_id,
\* service_id and team_id name rows of sites, departments, services and teams.
C28_PlacementExists ==
    \A e \in DOMAIN store.employees :
        /\ store.employees[e].site_id \in store.sites
        /\ store.employees[e].department_id \in store.departments
        /\ store.employees[e].service_id \in store.services
        /\ store.employees[e].team_id \in store.teams

\* an update has just moved an employee to a site that does not exist, and
\* the history records the move
C28_Witness ==
    /\ last.op = "PUT" /\ last.response.status = 200
    /\ \E e \in DOMAIN store.employees :
        /\ store.employees[e].site_id \notin store.sites
        /\ \E a \in OpenAffectations(store, e) :
            store.employee_affectations[a].site_id_nouveau = Some(store.employees[e].site_id)

---------------------------------------------------------------------------
(* The transitions to Licencié *)

BecomesLicencie(e) ==
    /\ e \in DOMAIN store.employees /\ store.employees[e].statut # "Licencié"
    /\ store'.employees[e].statut = "Licencié"

\* C29: every committed step that takes an employee's statut to Licencié,
\* whichever operation performs it, leaves that employee's user_id NULL.
C29_LinkSevered ==
    [][\A e \in EmpIds : BecomesLicencie(e) => store'.employees[e].user_id = Null]_vars

\* a Licenciement sanction has just dismissed an employee who keeps the
\* user account the hire gave
C29_Witness ==
    /\ last.op = "sanctions" /\ last.response.status = 201
    /\ 1 \in DOMAIN store.employees
    /\ store.employees[1].statut = "Licencié"
    /\ store.employees[1].user_id # Null
    /\ \E x \in DOMAIN store.sanctions : store.sanctions[x].type_sanction = "Licenciement"

---------------------------------------------------------------------------
(* authMiddleware, in front of every route but the login.

   An Authorization header value is a list of pieces: a space, or a run of
   characters without space ("good" is a token jwt.verify accepts, "old" one
   that has expired, every other run fails the verification).  The header
   parser strips the spaces at both ends of a value. *)

Space == " "
Pieces == {"Bearer", "Basic", Space, "good", "old"}
MaxHeader == 3

HeaderValues ==
    { h \in UNION { [1..n -> Pieces] : n \in 0..MaxHeader } :
        h # <<>> => (h[1] # Space /\ h[Len(h)] # Space) }

Headers == {Null} \cup { Some(h) : h \in HeaderValues }

\* String.prototype.split(' '): the runs between the spaces, empty ones included
RECURSIVE split(_)
split(h) ==
    IF \A i \in DOMAIN h : h[i] # Space THEN <<h>>
    ELSE LET i == CHOOSE k \in DOMAIN h : h[k] = Space /\ \A j \in 1..(k - 1) : h[j] # Space
         IN  <<SubSeq(h, 1, i - 1)>> \o split(SubSeq(h, i + 1, Len(h)))

\* authHeader && authHeader.split(' ')[1]: undefined without header or without
\* second run, the empty string itself for an empty header
tokenOf(authHeader) ==
    IF IsNull(authHeader) THEN Null
    ELSE IF Val(authHeader) = <<>> THEN Some(<<>>)
    ELSE IF Len(split(Val(authHeader))) < 2 THEN Null
    ELSE Some(split(Val(authHeader))[2])

\* jwt.verify(token, process.env.JWT_SECRET) returns the payload or throws
verifies(token) == token = <<"good">>

authMiddleware(authHeader) ==
    IF IsNull(tokenOf(authHeader))
    THEN [next |-> FALSE, status |-> 401, message |-> "Accès non autorisé. Jeton manquant."]
    ELSE IF verifies(Val(tokenOf(authHeader)))
    THEN [next |-> TRUE, status |-> 0, message |-> "none"]
    ELSE [next |-> FALSE, status |-> 403, message |-> "Jeton invalide ou expiré."]

OneEmployee == PostEmployee(EmptyStore, StartDay, CreationBody(Some("M1"), 1, Some(7)), 0).store

ProtectedRoutes == {"contracts", "sanctions"}

InitAuth ==
    /\ store = OneEmployee
    /\ today = StartDay
    /\ last = [op |-> "none", response |-> NoResponse]
    /\ nchanges = [e \in EmpIds |-> 0]
    /\ reqs = NoRequest
    /\ locks = FALSE
    /\ ndone = <<>>

\* a request reaches a protected route: the middleware answers it or calls next()
Arrive ==
    \E header \in Headers, route \in ProtectedRoutes :
        /\ ndone # <<"next">>
        /\ reqs' = [route |-> route, before |-> store, header |-> header]
        /\ ndone' = IF authMiddleware(header).next THEN <<"next">> ELSE <<>>
        /\ last' = [op |-> route,
                    response |-> [status |-> authMiddleware(header).status,
                                  message |-> authMiddleware(header).message]]
        /\ UNCHANGED <<store, today, nchanges, locks>>

\* next(): the handler of the route runs
HandleContract ==
    \E body \in ContractBodies :
        /\ ndone = <<"next">> /\ reqs.route = "contracts"
        /\ WithinBounds(PostContract(store, body, 0).store)
        /\ store' = PostContract(store, body, 0).store
        /\ last' = [op |-> "contracts", response |-> PostContract(store, body, 0).response]
        /\ ndone' = <<"next", "getConnection", "beginTransaction", "release">>
        /\ UNCHANGED <<today, nchanges, reqs, locks>>

HandleSanction ==
    \E body \in SanctionBodies :
        /\ ndone = <<"next">> /\ reqs.route = "sanctions"
        /\ WithinBounds(PostSanction(store, body, 0).store)
        /\ store' = PostSanction(store, body, 0).store
        /\ last' = [op |-> "sanctions", response |-> PostSanction(store, body, 0).response]
        /\ ndone' = <<"next", "getConnection", "beginTransaction", "release">>
        /\ UNCHANGED <<today, nchanges, reqs, locks>>

NextAuth == Arrive \/ HandleContract \/ HandleSanction

SpecAuth == InitAuth /\ [][NextAuth]_vars

HasBearer(header) ==
    /\ ~IsNull(header) /\ Len(Val(header)) >= 3
    /\ Val(header)[1] = "Bearer" /\ Val(header)[2] = Space

BearerToken(header) == SubSeq(Val(header), 3, Len(Val(header)))

Refused(status) ==
    /\ last.response.status = status
    /\ ndone = <<>>
    /\ store = reqs.before

\* C30: on a protected route a request without bearer token is answered 401,
\* a request whose bearer token is invalid or expired is answered 403, and in
\* both cases the handler is not entered: no connection, no transaction, the
\* store as the request found it.
C30_TokenRequired ==
    reqs.route \in ProtectedRoutes =>
        /\ ~HasBearer(reqs.header) => Refused(401)
        /\ (HasBearer(reqs.header) /\ ~verifies(BearerToken(reqs.header))) => Refused(403)

\* a request whose Authorization header is "Basic good" has gone through the
\* middleware and its handler has answered
C30_Witness ==
    /\ reqs.route \in ProtectedRoutes
    /\ reqs.header = Some(<<"Basic", Space, "good">>)
    /\ ndone = <<"next", "getConnection", "beginTransaction", "release">>
    /\ last.response.status = 201

---------------------------------------------------------------------------
(* The hour fields of calculateHours taken together *)

\* C39: whenever the exit is after the entry, on every kind of day, the four
\* hour fields are not negative and heures_normales + heures_supplementaires
\* = totalHours; heures_supplementaires = heures_sup_15 + heures_sup_40 on
\* the ordinary days and on no other day.
C39_HoursAddUp ==
    (Calculated /\ Worked > 0) =>
        LET r == last.response
        IN  /\ r.heures_normales >= 0 /\ r.heures_supplementaires >= 0
            /\ r.heures_sup_15 >= 0 /\ r.heures_sup_40 >= 0
            /\ r.heures_normales + r.heures_supplementaires = r.totalHours
            /\ (r.heures_supplementaires = r.heures_sup_15 + r.heures_sup_40)
                <=> (~reqs.isHoliday /\ ~reqs.isSunday)

\* an ordinary day of 11 h 05: eight normal hours, two at the first tier,
\* an hour and a quarter at the second
C39_Witness ==
    /\ Calculated /\ ~reqs.isHoliday /\ ~reqs.isSunday /\ Worked = 665
    /\ last.response.totalHours = 11250
    /\ last.response.heures_normales = 8000
    /\ last.response.heures_supplementaires = 3250

---------------------------------------------------------------------------
(* The dates of a closed affectation record *)

ClosedAffectations ==
    { a \in DOMAIN store.employee_affectations :
        ~IsNull(store.employee_affectations[a].date_fin) }

\* C35: every closed affectation record has date_debut <= date_fin, after
\* any sequence of hires, updates and archives, a placement change on the day
\* the record was opened included.
C35_ClosedInOrder ==
    \A a \in ClosedAffectations :
        store.employee_affectations[a].date_debut
            <= Val(store.employee_affectations[a].date_fin)

\* an update has just closed, with the eve as date_fin, a record opened the
\* same day, and opened the next one
C35_Witness ==
    /\ last.op = "PUT" /\ last.response.status = 200
    /\ \E a \in ClosedAffectations :
        /\ store.employee_affectations[a].date_debut = today
        /\ store.employee_affectations[a].date_fin = Some(today - 1)
        /\ \E b \in OpenAffectations(store, store.employee_affectations[a].employee_id) :
            store.employee_affectations[b].date_debut = today

---------------------------------------------------------------------------
(* The history of a dismissed employee *)

\* C36: in every committed state an employee whose statut is Licencié has no
\* affectation record with date_fin = NULL.
C36_NoOpenWhenLicencie ==
    \A e \in DOMAIN store.employees :
        store.employees[e].statut = "Licencié" => OpenAffectations(store, e) = {}

\* a Licenciement sanction has just dismissed an employee whose record of the
\* hire is still open
C36_Witness ==
    /\ last.op = "sanctions" /\ last.response.status = 201
    /\ 1 \in DOMAIN store.employees
    /\ store.employees[1].statut = "Licencié"
    /\ store.employees[1].date_fin_contrat # Null
    /\ OpenAffectations(store, 1) # {}

---------------------------------------------------------------------------
(* The open record against the live row *)

LivePlacement(e) ==
    << Some(store.employees[e].site_id), Some(store.employees[e].department_id),
       Some(store.employees[e].service_id), Some(store.employees[e].team_id),
       Some(store.employees[e].position), Some(store.employees[e].fonction) >>

\* C34: in every committed state, whatever the sequence or the interleaving
\* of the hires and updates, the new-snapshot columns of an employee's open
\* affectation record equal the placement columns of the employee's row.
C34_OpenRecordIsLive ==
    \A e \in DOMAIN store.employees :
        \A a \in OpenAffectations(store, e) :
            NewSnapshot(store.employee_affectations[a]) = LivePlacement(e)

\* two updates of one employee that were in flight together, one moving the
\* site and one the department, have both committed: the row carries both
\* changes and the open record the site of the hire
C34_Witness ==
    /\ \A w \in Workers : reqs[w].pc = "done" /\ reqs[w].changed /\ reqs[w].raced
    /\ reqs[1].id = reqs[2].id
    /\ reqs[1].currentEmployee = reqs[2].currentEmployee
    /\ \E a \in OpenAffectations(store, reqs[1].id) :
        /\ NewSnapshot(store.employee_affectations[a]) # LivePlacement(reqs[1].id)
        /\ store.employees[reqs[1].id].site_id = 2
        /\ store.employees[reqs[1].id].department_id = 2

---------------------------------------------------------------------------
(* The day of a checkout *)

\* the record a was written by the step
Mutated(a) == store'.attendances[a] # store.attendances[a]

---------------------------------------------------------------------------
(* One employee whose statut changes, and the three routes that ask for an
   active employee.  The requests are handled one after the other. *)

\* the store s together with the tables of the time routes, empty
WithEveryTable(s) ==
    [ k \in DOMAIN s \cup DOMAIN WithTimeTables(s) |->
        IF k \in DOMAIN s THEN s[k] ELSE WithTimeTables(s)[k] ]

\* POST /api/time/checkin, handled from beginning to end
PostCheckin(s, body) ==
    IF ~checkinSchema(body) THEN Resp(s, 400, JoiError)
    ELSE IF ~ActiveEmployee(s, body.employee_id)
    THEN Resp(s, 404, "Employé actif non trouvé.")
    ELSE IF AttendancesOf(s, body.employee_id, OrElse(body.date_pointage, StartDay)) # {}
    THEN Resp(s, 409, "Un pointage d'entrée est déjà enregistré pour cet employé aujourd'hui.")
    ELSE Resp(InsertAttendance(s, body), 201, "Pointage d'entrée enregistré avec succès.")

Statuts == {"Actif", "Suspendu", "Licencié"}

\* the requests made for the employee: a leave of one day, a main contract
\* and an amendment, a reprimand and a dismissal
StatutLeaves == { LeaveBody(1, MaxDate, MaxDate) }
StatutContracts == { b \in ContractBodies : b.employee_id = 1 /\ contractSchema(b) }
StatutSanctions == { b \in SanctionBodies : b.employee_id = 1 }

InitStatut ==
    /\ store = WithEveryTable(OneEmployee)
    /\ today = StartDay
    /\ last = [op |-> "none", response |-> NoResponse]
    /\ nchanges = [e \in EmpIds |-> 0]
    /\ reqs = NoRequests
    /\ locks = NoRequests
    /\ ndone = NoRequests

SetStatut ==
    \E statut \in Statuts, pick \in ClosePicks(store, 1) :
        Answer("PUT", PutEmployee(store, today, 1, With(NoBody, "statut", statut), 0, pick))

ArchiveStatut == Answer("DELETE", DeleteEmployee(store, today, 1, 0))

SanctionStatut ==
    \E body \in StatutSanctions : Answer("sanctions", PostSanction(store, body, 0))

CheckinStatut ==
    \E body \in CheckinBodies(today) : Answer("checkin", PostCheckin(store, body))

LeaveStatut ==
    \E body \in StatutLeaves : Answer("leaves", PostLeave(store, today, body, 0))

ContractStatut ==
    \E body \in StatutContracts : Answer("contracts", PostContract(store, body, 0))

NextStatut ==
    \/ SetStatut \/ ArchiveStatut \/ SanctionStatut
    \/ CheckinStatut \/ LeaveStatut \/ ContractStatut

SpecStatut == InitStatut /\ [][NextStatut]_vars

\* C37: while an employee's statut is not Actif, every well-formed check-in,
\* leave submission and contract creation for that employee is answered 404
\* and leaves the store as it was.
C37_InactiveRefused ==
    \A e \in DOMAIN store.employees :
        store.employees[e].statut # "Actif" =>
            /\ \A body \in CheckinBodies(today) :
                (checkinSchema(body) /\ body.employee_id = e)
                    => /\ PostCheckin(store, body).response.status = 404
                       /\ PostCheckin(store, body).store = store
            /\ \A body \in LeaveProbes, failAt \in {0, 4} :
                (leaveRequestSchema(body, today) /\ body.employee_id = e)
                    => /\ PostLeave(store, today, body, failAt).response.status = 404
                       /\ PostLeave(store, today, body, failAt).store = store
            /\ \A body \in ContractBodies, failAt \in {0, 4} :
                (contractSchema(body) /\ body.employee_id = e)
                    => /\ PostContract(store, body, failAt).response.status = 404
                       /\ PostContract(store, body, failAt).store = store

\* an employee who checked in, took a leave and got a contract while active
\* has been suspended, and a check-in has just been answered 404
C37_Witness ==
    /\ store.employees[1].statut = "Suspendu"
    /\ last.op = "checkin" /\ last.response.status = 404
    /\ store.attendances # <<>> /\ store.leave_requests # <<>> /\ store.contracts # <<>>

---------------------------------------------------------------------------
(* The structure routes: POST /api/structure/sites, /departments, /services
   and /teams.  Each table maps the AUTO_INCREMENT id to the row; the
   handlers use the pool directly, one statement at a time, and are taken
   here one request after the other. *)

MaxNodes == 2

StructureStore == [ sites |-> <<>>, departments |-> <<>>, services |-> <<>>, teams |-> <<>> ]

Codes == {"A", "B"}
NodeIds == {0, 1, MaxNodes + 1}

siteSchema(body) == ~IsNull(body.code_site)
departmentSchema(body) == ~IsNull(body.code_interne) /\ body.site_id >= 1
serviceSchema(body) == ~IsNull(body.code_metier) /\ body.department_id >= 1
teamSchema(body) == ~IsNull(body.nom) /\ body.service_id >= 1

\* SELECT <code> FROM <table> WHERE <code> = ?
WithCode(table, column, code) == { n \in DOMAIN table : table[n][column] = code }

PostSite(s, body) ==
    IF ~siteSchema(body) THEN Resp(s, 400, JoiError)
    ELSE IF WithCode(s.sites, "code_site", Val(body.code_site)) # {}
    THEN Resp(s, 409, "Un site avec ce code existe déjà.")
    ELSE Resp([s EXCEPT !.sites = Put(@, insertId(@), [code_site |-> Val(body.code_site)])],
              201, "Site créé avec succès !")

PostDepartment(s, body) ==
    IF ~departmentSchema(body) THEN Resp(s, 400, JoiError)
    ELSE IF body.site_id \notin DOMAIN s.sites
    THEN Resp(s, 404, "Le site d'affectation spécifié (site_id) n'existe pas.")
    ELSE IF WithCode(s.departments, "code_interne", Val(body.code_interne)) # {}
    THEN Resp(s, 409, "Un département avec ce code interne existe déjà.")
    ELSE Resp([s EXCEPT !.departments =
                  Put(@, insertId(@), [ code_interne |-> Val(body.code_interne),
                                        site_id |-> body.site_id ])],
              201, "Département créé avec succès !")

PostService(s, body) ==
    IF ~serviceSchema(body) THEN Resp(s, 400, JoiError)
    ELSE IF body.department_id \notin DOMAIN s.departments
    THEN Resp(s, 404, "Le département parent spécifié (department_id) n'existe pas.")
    ELSE IF WithCode(s.services, "code_metier", Val(body.code_metier)) # {}
    THEN Resp(s, 409, "Un service avec ce code métier existe déjà.")
    ELSE Resp([s EXCEPT !.services =
                  Put(@, insertId(@), [ code_metier |-> Val(body.code_metier),
                                        department_id |-> body.department_id ])],
              201, "Service créé avec succès !")

\* teamSchema has nom, specialite and service_id: a team carries no code
PostTeam(s, body) ==
    IF ~teamSchema(body) THEN Resp(s, 400, JoiError)
    ELSE IF body.service_id \notin DOMAIN s.services
    THEN Resp(s, 404, "Le service parent spécifié (service_id) n'existe pas.")
    ELSE Resp([s EXCEPT !.teams =
                  Put(@, insertId(@), [ nom |-> Val(body.nom), service_id |-> body.service_id ])],
              201, "Équipe créée avec succès !")

SiteBodies == [ code_site : {Null} \cup { Some(c) : c \in Codes } ]
DepartmentBodies == [ code_interne : { Some(c) : c \in Codes }, site_id : NodeIds ]
ServiceBodies == [ code_metier : { Some(c) : c \in Codes }, department_id : NodeIds ]
TeamBodies == [ nom : { Some(c) : c \in Codes }, service_id : NodeIds ]

InitStructure ==
    /\ store = StructureStore
    /\ today = StartDay
    /\ last = [op |-> "none", response |-> NoResponse, before |-> StructureStore]
    /\ nchanges = [e \in EmpIds |-> 0]
    /\ reqs = NoRequests
    /\ locks = NoRequests
    /\ ndone = NoRequests

Created(op, r) ==
    /\ \A t \in DOMAIN r.store : Cardinality(DOMAIN r.store[t]) <= MaxNodes
    /\ store' = r.store
    /\ last' = [op |-> op, response |-> r.response, before |-> store]
    /\ UNCHANGED <<today, nchanges, reqs, locks, ndone>>

CreateSite == \E body \in SiteBodies : Created("sites", PostSite(store, body))
CreateDepartment == \E body \in DepartmentBodies : Created("departments", PostDepartment(store, body))
CreateService == \E body \in ServiceBodies : Created("services", PostService(store, body))
CreateTeam == \E body \in TeamBodies : Created("teams", PostTeam(store, body))

NextStructure == CreateSite \/ CreateDepartment \/ CreateService \/ CreateTeam

SpecStructure == InitStructure /\ [][NextStructure]_vars

Distinct(table, column) ==
    \A m, n \in DOMAIN table : table[m][column] = table[n][column] => m = n

ParentsExist ==
    /\ \A n \in DOMAIN store.departments : store.departments[n].site_id \in DOMAIN store.sites
    /\ \A n \in DOMAIN store.services :
        store.services[n].department_id \in DOMAIN store.departments
    /\ \A n \in DOMAIN store.teams : store.teams[n].service_id \in DOMAIN store.services

\* a creation that was refused for its parent or its code has inserted nothing
RefusedInsertsNothing == last.response.status \in {404, 409} => store = last.before

\* C32: after any sequence of structure creations every department, service
\* and team names an existing parent, no two nodes of a level share their
\* code (code_site, code_interne, code_metier; a team, which has no code
\* column, by the nom it is designated with), and a creation refused for its
\* parent or its code has inserted nothing.
C32_StructureSound ==
    /\ ParentsExist
    /\ Distinct(store.sites, "code_site")
    /\ Distinct(store.departments, "code_interne")
    /\ Distinct(store.services, "code_metier")
    /\ Distinct(store.teams, "nom")
    /\ RefusedInsertsNothing

\* the same team has just been created a second time under the same service
C32_Witness ==
    /\ last.op = "teams" /\ last.response.status = 201
    /\ \E m, n \in DOMAIN store.teams : m # n /\ store.teams[m] = store.teams[n]

---------------------------------------------------------------------------
(* The status of a refusal *)

StructureMissing ==
    "Erreur: L'une des affectations (Site, Département, Service, Équipe) n'existe pas."

\* the hires that name a site, a department, a service or a team that does
\* not exist, with a matricule no employee has
MissingStructureBodies ==
    { [CreationBody(Some(m), 1, Some(7)) EXCEPT ![k] = MissingId] :
        m \in { x \in Matricules : ~MatriculeExists(store, x) },
        k \in {"site_id", "department_id", "service_id", "team_id"} }

\* C31: a request refused because an entity it names does not exist is
\* answered 404 (the employee of an update, a contract, a sanction, a leave
\* or a check-in; the site, department, service or team of a hire), and a
\* request refused for uniqueness is answered 409 (the matricule of a hire).
C31_MissingIs404 ==
    /\ \A body \in MissingStructureBodies :
        PostEmployee(store, today, body, 0).response.status = 404
    /\ \A m \in Matricules :
        MatriculeExists(store, m)
            => PostEmployee(store, today, CreationBody(Some(m), 1, Some(7)), 0).response.status = 409
    /\ \A body \in PutBodies :
        PutEmployee(store, today, AbsentEmp, body, 0, 0).response.status = 404
    /\ \A body \in ContractBodies :
        (contractSchema(body) /\ body.employee_id = AbsentEmp)
            => PostContract(store, body, 0).response.status = 404
    /\ \A body \in SanctionBodies :
        (sanctionSchema(body) /\ body.employee_id = AbsentEmp)
            => PostSanction(store, body, 0).response.status = 404
    /\ \A body \in LeaveProbes :
        (leaveRequestSchema(body, today) /\ body.employee_id = AbsentEmp)
            => PostLeave(WithEveryTable(store), today, body, 0).response.status = 404
    /\ \A body \in CheckinBodies(today) :
        (checkinSchema(body) /\ body.employee_id = AbsentEmp)
            => PostCheckin(WithEveryTable(store), body).response.status = 404

\* a hire that names a site that does not exist has just been answered 400
C31_Witness ==
    /\ last.op = "POST"
    /\ last.response = [status |-> 400, message |-> StructureMissing]
    /\ store.employees # <<>>

---------------------------------------------------------------------------
(* Two submissions for the same employee in flight at the same time:
   POST /leaves and POST /contracts, one store call or commit per step.
   Each request runs in its own transaction on its own connection; its
   SELECTs are plain reads of the rows committed when it first read, and
   its INSERTs wait for no row another transaction has inserted. *)

RaceIdle ==
    [pc |-> "idle", route |-> "none", body |-> NoBody, id |-> 0,
     response |-> NoResponse, status |-> 0]

\* two leaves that share a day, and the main contracts of the employee
RaceRequests ==
    { [route |-> "leaves", body |-> b] :
        b \in { LeaveBody(1, StartDay + 1, StartDay + 2),
                LeaveBody(1, StartDay + 2, StartDay + 3) } }
    \cup { [route |-> "contracts", body |-> b] :
            b \in { c \in StatutContracts : ~c.is_avenant } }

\* the handler of a route, run on the rows v with no other request in flight
Handled(v, d, route, body) ==
    IF route = "leaves" THEN PostLeave(v, d, body, 0) ELSE PostContract(v, body, 0)

\* result.insertId: the AUTO_INCREMENT counter of a table is shared by the
\* transactions, committed or not
RaceInsertId(route) ==
    LET table == IF route = "leaves" THEN store.leave_requests ELSE store.contracts
    IN  Max(DOMAIN table \cup { reqs[x].id : x \in { y \in Workers : reqs[y].route = route } }
            \cup {0}) + 1

InitRace ==
    /\ store = WithEveryTable(OneEmployee)
    /\ today = StartDay
    /\ last = [op |-> "none", response |-> NoResponse]
    /\ nchanges = [e \in EmpIds |-> 0]
    /\ reqs = [w \in Workers |-> RaceIdle]
    /\ locks = [w \in Workers |-> {}]
    /\ ndone = [w \in Workers |-> 0]

\* beginTransaction, validate, SELECT the Actif employee, SELECT the
\* conflicting rows: an early return rolls back and answers, otherwise the
\* handler goes on to its INSERT
RaceSelect(w) ==
    /\ reqs[w].pc = "idle"
    /\ ndone[w] = 0
    /\ \E req \in RaceRequests :
        LET r == Handled(store, today, req.route, req.body)
        IN  IF r.response.status = 201
            THEN /\ reqs' = [reqs EXCEPT ![w] =
                        [pc |-> "insert", route |-> req.route, body |-> req.body,
                         id |-> 0, response |-> r.response, status |-> 0]]
                 /\ UNCHANGED <<last, ndone>>
            ELSE /\ reqs' = [reqs EXCEPT ![w] =
                        [pc |-> "done", route |-> req.route, body |-> req.body,
                         id |-> 0, response |-> r.response,
                         status |-> r.response.status]]
                 /\ last' = [op |-> req.route, response |-> r.response]
                 /\ ndone' = [ndone EXCEPT ![w] = 1]
    /\ UNCHANGED <<store, today, nchanges, locks>>

\* the INSERTs of the handler and, for a main contract, UPDATE employees,
\* which waits for the employee's row while another transaction has
\* updated it
RaceInsert(w) ==
    /\ reqs[w].pc = "insert"
    /\ IF reqs[w].route = "contracts"
       THEN /\ \A v \in Workers \ {w} : locks[v] = {}
            /\ locks' = [locks EXCEPT ![w] = {reqs[w].body.employee_id}]
       ELSE UNCHANGED locks
    /\ reqs' = [reqs EXCEPT
                    ![w].pc = "commit",
                    ![w].id = RaceInsertId(reqs[w].route),
                    ![w].response =
                        IF reqs[w].route = "leaves"
                        THEN [@ EXCEPT !.requestId = RaceInsertId("leaves")]
                        ELSE @]
    /\ UNCHANGED <<store, today, last, nchanges, ndone>>

\* connection.commit() and the 201: the rows the transaction wrote join
\* the committed rows (leave_validations receives one row per submission,
\* so a submission's step carries the number of its request)
RaceCommit(w) ==
    /\ reqs[w].pc = "commit"
    /\ LET body == reqs[w].body
           id == reqs[w].id
           request == InsertLeaveRequest(store, body).leave_requests[insertId(store.leave_requests)]
           step == InsertLeaveValidation(store, id).leave_validations[insertId(store.leave_validations)]
           contract == InsertContract(store, body).contracts[insertId(store.contracts)]
       IN  store' =
               IF reqs[w].route = "leaves"
               THEN [store EXCEPT !.leave_requests = Put(@, id, request),
                                  !.leave_validations = Put(@, id, step)]
               ELSE SetPositionId([store EXCEPT !.contracts = Put(@, id, contract)], body)
    /\ last' = [op |-> reqs[w].route, response |-> reqs[w].response]
    /\ reqs' = [reqs EXCEPT ![w].pc = "done", ![w].status = 201]
    /\ locks' = [locks EXCEPT ![w] = {}]
    /\ ndone' = [ndone EXCEPT ![w] = 1]
    /\ UNCHANGED <<today, nchanges>>

NextRace == \E w \in Workers : RaceSelect(w) \/ RaceInsert(w) \/ RaceCommit(w)

SpecRace == InitRace /\ [][NextRace]_vars

\* C33: of two requests in flight for the same employee that each pass
\* their exclusivity check (two leaves that share a day, or two main
\* contracts), at most one is answered 201.
C33_AtMostOneCommits ==
    \A v, w \in Workers :
        (/\ v # w
         /\ reqs[v].route = reqs[w].route
         /\ reqs[v].status = 201)
            => reqs[w].status # 201

\* both submissions have been answered 201 and the employee has two
\* submitted leaves that share a day
C33_Witness ==
    /\ \A w \in Workers : reqs[w].route = "leaves" /\ reqs[w].status = 201
    /\ \E r1, r2 \in DOMAIN store.leave_requests :
        /\ r1 # r2
        /\ store.leave_requests[r1].employee_id = store.leave_requests[r2].employee_id
        /\ store.leave_requests[r1].statut_actuel = "Soumis"
        /\ store.leave_requests[r2].statut_actuel = "Soumis"
        /\ store.leave_requests[r1].date_debut <= store.leave_requests[r2].date_fin
        /\ store.leave_requests[r2].date_debut <= store.leave_requests[r1].date_fin

---------------------------------------------------------------------------
(* The pool: requests of POST /api/employee and PUT /api/employee/:id served
   at the same time, one call on the connection per step up to the try
   block.  Every handler that takes a connection has the same frame:
   getConnection and beginTransaction before the try block, release in its
   finally. *)

connectionLimit == 10

PoolIdle == [pc |-> "idle", route |-> "none", body |-> NoBody, failAt |-> 0]

PoolRequests ==
    { [route |-> "POST", body |-> b, failAt |-> f] :
        b \in { CreationBody(Some("M1"), 1, Some(7)), CreationBody(Null, 1, Some(7)) },
        f \in {0, 4} }
    \cup { [route |-> "PUT", body |-> b, failAt |-> f] :
            b \in { Motive(With(NoBody, "site_id", 2)), With(NoBody, "site_id", 2) },
            f \in {0, 1} }

\* the calls of the try block and the catch of PUT /api/employee/:id
putExit(s, d, employeeId, body, failAt, pick) ==
    IF PutEmployee(s, d, employeeId, body, failAt, pick).response.status = 200
    THEN <<"commit", "json">>
    ELSE <<"rollback", "json">>

InitPool ==
    /\ store = EmptyStore
    /\ today = StartDay
    /\ last = [op |-> "none", response |-> NoResponse]
    /\ nchanges = [e \in EmpIds |-> 0]
    /\ reqs = [w \in Workers |-> PoolIdle]
    /\ locks = 0
    /\ ndone = [w \in Workers |-> <<>>]

\* const connection = await db.getConnection(): waits while every
\* connection of the pool is out
PoolGetConnection(w) ==
    /\ reqs[w].pc = "idle"
    /\ locks < connectionLimit
    /\ \E req \in PoolRequests :
        reqs' = [reqs EXCEPT ![w] =
                    [pc |-> "begin", route |-> req.route, body |-> req.body,
                     failAt |-> req.failAt]]
    /\ locks' = locks + 1
    /\ ndone' = [ndone EXCEPT ![w] = <<"getConnection">>]
    /\ UNCHANGED <<store, today, last, nchanges>>

\* await connection.beginTransaction(), before the try block: when it
\* throws the handler is over, with no catch and no finally.  The driver
\* either drops the connection it lost from the pool or, the connection
\* being still usable, leaves it checked out.
PoolBeginTransaction(w) ==
    /\ reqs[w].pc = "begin"
    /\ \E thrown \in BOOLEAN :
        IF thrown
        THEN /\ reqs' = [reqs EXCEPT ![w].pc = "idle"]
             /\ ndone' = [ndone EXCEPT ![w] = @ \o <<"beginTransaction", "throw">>]
             /\ \E dropped \in BOOLEAN : locks' = IF dropped THEN locks - 1 ELSE locks
        ELSE /\ reqs' = [reqs EXCEPT ![w].pc = "try"]
             /\ ndone' = [ndone EXCEPT ![w] = Append(@, "beginTransaction")]
             /\ locks' = locks
    /\ UNCHANGED <<store, today, last, nchanges>>

\* the try block and the catch, up to the response
PoolTry(w) ==
    /\ reqs[w].pc = "try"
    /\ \E pick \in ClosePicks(store, 1) :
        LET q == reqs[w]
            r == IF q.route = "POST" THEN PostEmployee(store, today, q.body, q.failAt)
                 ELSE PutEmployee(store, today, 1, q.body, q.failAt, pick)
            exit == IF q.route = "POST" THEN employeeExit(store, today, q.body, q.failAt)
                    ELSE putExit(store, today, 1, q.body, q.failAt, pick)
        IN  /\ WithinBounds(r.store)
            /\ store' = r.store
            /\ last' = [op |-> q.route, response |-> r.response]
            /\ ndone' = [ndone EXCEPT ![w] = @ \o exit]
    /\ reqs' = [reqs EXCEPT ![w].pc = "finally"]
    /\ UNCHANGED <<today, nchanges, locks>>

\* finally { connection.release(); }
PoolFinally(w) ==
    /\ reqs[w].pc = "finally"
    /\ reqs' = [reqs EXCEPT ![w].pc = "idle"]
    /\ ndone' = [ndone EXCEPT ![w] = Append(@, "release")]
    /\ locks' = locks - 1
    /\ UNCHANGED <<store, today, last, nchanges>>

NextPool ==
    \E w \in Workers :
        \/ PoolGetConnection(w) \/ PoolBeginTransaction(w)
        \/ PoolTry(w) \/ PoolFinally(w)

SpecPool == InitPool /\ [][NextPool]_vars

Releases(calls) == Cardinality({ i \in DOMAIN calls : calls[i] = "release" })

Over(w) == reqs[w].pc = "idle" /\ ndone[w] # <<>>

\* C40: a handler that took a connection from the pool has released it
\* exactly once when it is over, whatever its exit (the response of a
\* success, an early 400, 404 or 409, a store call that threw,
\* beginTransaction that threw), and with no request in hand no connection
\* is checked out, so that the pool of connectionLimit connections is never
\* used up.
C40_ReleasedOnEveryExit ==
    /\ \A w \in Workers : Over(w) => Releases(ndone[w]) = 1
    /\ (\A w \in Workers : reqs[w].pc = "idle") => locks = 0

\* no request is in hand, the last one ended in beginTransaction without a
\* release, and every connection of the pool is checked out
C40_Witness ==
    /\ \A w \in Workers : reqs[w].pc = "idle"
    /\ \E w \in Workers : Over(w) /\ Releases(ndone[w]) = 0
    /\ locks = connectionLimit

====
